---- MODULE Spec2Model ----
(***************************************************************************)
(* Model of the research pipeline of degen-doggo-digs:                     *)
(*   src/src/services/DeepResearchDegen.js  (second class of the file,     *)
(*   lines 275-1042: deduplicateSources, expandQueries, generateAIReport   *)
(*   tiering, fetchSourcesMultiStage, runPipeline, llmCall)                *)
(* Strings are sequences of one-character strings, so that toLowerCase,    *)
(* replace(/\/$/, ''), split, slice and join are computed, not assumed.    *)
(***************************************************************************)
EXTENDS Integers, Sequences, FiniteSets, TLC

VARIABLES
    arg,        \* the argument of the function under test (unit specifications)
    ret,        \* its return value
    applied,    \* TRUE once the function has been applied to arg
    \* one run of runPipeline on one DeepResearchDegen instance
    input,              \* runPipeline: the argument of the run
    pc,                 \* the await the run is suspended at, or how it ended
    costTrackerCalls,   \* the methods the run has called on this.costTracker
    searchCalls,        \* the arguments of the searchEnhanced calls of the run
    totalCost,          \* the cost counter of the CostTracker singleton
    searchStage,        \* fetchSourcesMultiStage: the stage whose search is awaited (1..4)
    allSources,         \* fetchSourcesMultiStage: const allSources
    sources,            \* runPipeline: const sources
    batchStart,         \* runPipeline: the loop variable i of the extraction loop
    inFlight,           \* positions in sources whose extraction llmCall is pending
    batchResults,       \* settled extraction promises of the current batch, by position
    extractedSources,   \* runPipeline: const extractedSources
    synthesis,          \* runPipeline: const synthesis
    speculation,        \* runPipeline: const speculation
    finalReport,        \* runPipeline: const finalReport
    validation,         \* runPipeline: const validation
    llmCalls,           \* number of llmCall invocations made by the run, per stage
    debugLogs,          \* this.debugLogs
    result,             \* the value the run resolved with
    error               \* the error the run rejected with

fnVars == <<arg, ret, applied>>

\* what only the start of a run and the search stages change
runVars == <<input, costTrackerCalls, searchCalls>>

pipeVars == <<runVars, pc, totalCost, searchStage, allSources, sources, batchStart, inFlight,
              batchResults, extractedSources, synthesis, speculation, finalReport,
              validation, llmCalls, debugLogs, result, error>>

vars == <<fnVars, pipeVars>>

----------------------------------------------------------------------------
(* Bounds of the model *)

MaxDedupLen == 3

MaxTerms == 3

MaxVariationCount == 9

MaxTierSources == 157

MaxScriptLen == 3

MaxRetries == 5

MaxStageResults == 1

----------------------------------------------------------------------------
(* JavaScript string and array primitives used by the code *)

Min(a, b) == IF a < b THEN a ELSE b

Max(a, b) == IF a > b THEN a ELSE b

\* one character of String.prototype.toLowerCase
LowerChar(c) ==
    CASE c = "A" -> "a"
      [] c = "B" -> "b"
      [] c = "C" -> "c"
      [] c = "Analysis" -> "analysis"
      [] c = "Critical" -> "critical"
      [] c = "CRITICAL" -> "critical"
      [] c = "Rate limit" -> "rate limit"
      [] OTHER -> c

ToLowerCase(s) == [i \in 1..Len(s) |-> LowerChar(s[i])]

\* Array.prototype.slice(from, to) and String.prototype.substring(from, to),
\* 0-based, end exclusive, for 0 <= from
Slice(s, from, to) == SubSeq(s, from + 1, Min(to, Len(s)))

\* String.prototype.split(sep) for a one-character separator
RECURSIVE SplitFrom(_, _, _, _)
SplitFrom(s, sep, i, cur) ==
    IF i > Len(s) THEN <<cur>>
    ELSE IF s[i] = sep THEN <<cur>> \o SplitFrom(s, sep, i + 1, <<>>)
    ELSE SplitFrom(s, sep, i + 1, Append(cur, s[i]))

Split(s, sep) == SplitFrom(s, sep, 1, <<>>)

\* Array.prototype.join(sep)
RECURSIVE Join(_, _)
Join(words, sep) ==
    IF Len(words) = 0 THEN <<>>
    ELSE IF Len(words) = 1 THEN words[1]
    ELSE words[1] \o <<sep>> \o Join(Tail(words), sep)

----------------------------------------------------------------------------
(* Source documents { title, url, content } *)

Urls == { <<"a">>, <<"a", "/">>, <<"A">>, <<"b">> }

Titles ==
    { <<"a", " ", "b", " ", "c", " ", "a", " ", "b", " ", "x">>,
      <<"A", " ", "b", " ", "C", " ", "a", " ", "b", " ", "y">>,
      <<"c">> }

Contents == { <<"x">>, <<"x", "x">> }

Docs == [url : Urls, title : Titles, content : Contents]

RECURSIVE SeqsUpTo(_, _)
SeqsUpTo(S, n) ==
    IF n = 0 THEN { <<>> }
    ELSE LET shorter == SeqsUpTo(S, n - 1)
         IN  shorter \cup { Append(s, x) : s \in { t \in shorter : Len(t) = n - 1 }, x \in S }

----------------------------------------------------------------------------
(* JavaScript values of the run: a string, null, or a variable not assigned *)

Str(text) == [kind |-> "string", text |-> text]

Null == [kind |-> "null", text |-> <<>>]

Undefined == [kind |-> "undefined", text |-> <<>>]

NoLlmCalls ==
    [extraction |-> 0, synthesis |-> 0, speculation |-> 0, assembly |-> 0, validation |-> 0]

\* the state of an instance on which runPipeline has not been called:
\* constructor() sets this.debugLogs = []
PipelineNotStarted ==
    /\ input = <<>>
    /\ costTrackerCalls = <<>>
    /\ searchCalls = <<>>
    /\ pc = "idle"
    /\ totalCost = 0
    /\ searchStage = 0
    /\ allSources = <<>>
    /\ sources = <<>>
    /\ batchStart = 0
    /\ inFlight = {}
    /\ batchResults = <<>>
    /\ extractedSources = <<>>
    /\ synthesis = Undefined
    /\ speculation = Undefined
    /\ finalReport = Undefined
    /\ validation = Undefined
    /\ llmCalls = NoLlmCalls
    /\ debugLogs = <<>>
    /\ result = <<>>
    /\ error = <<>>

----------------------------------------------------------------------------
(* deduplicateSources *)

\* source.url.toLowerCase().replace(/\/$/, '')
NormalizedUrlOf_lowerCaseOnly(source) == ToLowerCase(source.url)

NormalizedUrlOf(source) ==
    LET lower == ToLowerCase(source.url)
    IN  IF Len(lower) > 0 /\ lower[Len(lower)] = "/"
        THEN SubSeq(lower, 1, Len(lower) - 1)
        ELSE lower

\* source.title.toLowerCase().split(' ').slice(0, 5).join(' ')
TitleWordsOf(source) ==
    Join(Slice(Split(ToLowerCase(source.title), " "), 0, 5), " ")

\* The callback of sources.filter, applied to sources[i] with the closure state
\* (seen, titleSimilarity): the new closure state and whether sources[i] is kept.
\* titleSimilarity maps a title key to the index of the source stored for it.
DedupCallback(srcs, i, seen, titleSimilarity) ==
    LET source == srcs[i]
        normalizedUrl == NormalizedUrlOf(source)
        titleWords == TitleWordsOf(source)
    IN  IF normalizedUrl \in seen
        THEN [seen |-> seen, titleSimilarity |-> titleSimilarity, keep |-> FALSE]
        ELSE IF titleWords \in DOMAIN titleSimilarity
        THEN LET existing == srcs[titleSimilarity[titleWords]]
             IN  IF Len(source.content) <= Len(existing.content)
                 THEN [seen |-> seen \cup {normalizedUrl},
                       titleSimilarity |-> titleSimilarity, keep |-> FALSE]
                 ELSE [seen |-> seen \cup {normalizedUrl},
                       titleSimilarity |-> (titleWords :> i) @@ titleSimilarity,
                       keep |-> TRUE]
        ELSE [seen |-> seen \cup {normalizedUrl},
              titleSimilarity |-> (titleWords :> i) @@ titleSimilarity,
              keep |-> TRUE]

\* Array.prototype.filter: the indices of the elements the callback keeps, in order
RECURSIVE DedupFilter(_, _, _, _)
DedupFilter(srcs, i, seen, titleSimilarity) ==
    IF i > Len(srcs) THEN <<>>
    ELSE LET r == DedupCallback(srcs, i, seen, titleSimilarity)
         IN  (IF r.keep THEN <<i>> ELSE <<>>)
                 \o DedupFilter(srcs, i + 1, r.seen, r.titleSimilarity)

DedupKeptIndices(srcs) == DedupFilter(srcs, 1, {}, <<>>)

deduplicateSources(srcs) ==
    LET kept == DedupKeptIndices(srcs)
    IN  [k \in 1..Len(kept) |-> srcs[kept[k]]]

----------------------------------------------------------------------------
(* Unit specification of deduplicateSources: every list of at most          *)
(* MaxDedupLen documents is given to the function.                          *)

InitDedup ==
    /\ arg \in SeqsUpTo(Docs, MaxDedupLen)
    /\ ret = <<>>
    /\ applied = FALSE
    /\ PipelineNotStarted

ApplyDedup ==
    /\ ~applied
    /\ ret' = [kept |-> DedupKeptIndices(arg), sources |-> deduplicateSources(arg)]
    /\ applied' = TRUE
    /\ UNCHANGED <<arg, pipeVars>>

NextDedup == ApplyDedup

SpecDedup == InitDedup /\ [][NextDedup]_vars

(* C1. deduplicateSources: for any input list in which two entries have the *)
(* same normalized URL (lower-cased, one trailing slash stripped), the      *)
(* output contains exactly one of the two, and the one kept is the entry    *)
(* with the longer content, whatever the order of the two in the input.     *)
C1_SameUrlKeepsLonger ==
    applied =>
        \A i, j \in 1..Len(arg) :
            LET li == ToLowerCase(arg[i].url)
                lj == ToLowerCase(arg[j].url)
                ni == IF Len(li) > 0 /\ li[Len(li)] = "/" THEN SubSeq(li, 1, Len(li) - 1) ELSE li
                nj == IF Len(lj) > 0 /\ lj[Len(lj)] = "/" THEN SubSeq(lj, 1, Len(lj) - 1) ELSE lj
                keptI == \E k \in 1..Len(ret.kept) : ret.kept[k] = i
                keptJ == \E k \in 1..Len(ret.kept) : ret.kept[k] = j
            IN  (i < j /\ ni = nj) =>
                    /\ keptI # keptJ
                    /\ Len(arg[i].content) > Len(arg[j].content) => keptI
                    /\ Len(arg[j].content) > Len(arg[i].content) => keptJ

(* C3. deduplicateSources: when two input documents with different URLs     *)
(* have the same first five title words (lower-cased), the output contains  *)
(* only one of them, and it is the one with the longer content, also when   *)
(* the longer one comes later in the input.                                 *)
C3_SameTitleKeepsLonger ==
    applied =>
        \A i, j \in 1..Len(arg) :
            LET wi == SubSeq(Split(ToLowerCase(arg[i].title), " "), 1,
                             Min(5, Len(Split(ToLowerCase(arg[i].title), " "))))
                wj == SubSeq(Split(ToLowerCase(arg[j].title), " "), 1,
                             Min(5, Len(Split(ToLowerCase(arg[j].title), " "))))
                keptI == \E k \in 1..Len(ret.kept) : ret.kept[k] = i
                keptJ == \E k \in 1..Len(ret.kept) : ret.kept[k] = j
            IN  (i < j /\ wi = wj /\ arg[i].url # arg[j].url) =>
                    /\ ~(keptI /\ keptJ)
                    /\ Len(arg[i].content) > Len(arg[j].content) => keptI
                    /\ Len(arg[j].content) > Len(arg[i].content) => keptJ

----------------------------------------------------------------------------
(* expandQueries *)

\* const suffixes = [...]: each phrase is one atom of the string
suffixes ==
    << <<"crypto token analysis">>, <<"blockchain project review">>,
       <<"tokenomics breakdown">>, <<"team funding investors">>,
       <<"price prediction analysis">>, <<"community social media">>,
       <<"smart contract audit">>, <<"roadmap development">> >>

\* the template literal `${term} ${suffixes[i]}`, i 0-based
TermWithSuffix(term, i) == term \o <<" ">> \o suffixes[i + 1]

\* the pushes of the inner for loop from index i on:
\* for (i; i < variationCount && i < suffixes.length; i++)
RECURSIVE SuffixLoop(_, _, _)
SuffixLoop(term, variationCount, i) ==
    IF i < variationCount /\ i < Len(suffixes)
    THEN <<TermWithSuffix(term, i)>> \o SuffixLoop(term, variationCount, i + 1)
    ELSE <<>>

\* a plausible slip: the loop runs while i <= variationCount
RECURSIVE SuffixLoopInclusive(_, _, _)
SuffixLoopInclusive(term, variationCount, i) ==
    IF i <= variationCount /\ i < Len(suffixes)
    THEN <<TermWithSuffix(term, i)>> \o SuffixLoopInclusive(term, variationCount, i + 1)
    ELSE <<>>

\* the body of baseTerms.forEach: what one term pushes to variations
ExpandTerm_offByOne(term, variationCount) ==
    <<term>> \o SuffixLoopInclusive(term, variationCount, 0)

ExpandTerm(term, variationCount) ==
    <<term>> \o SuffixLoop(term, variationCount, 0)

RECURSIVE expandQueries(_, _)
expandQueries(baseTerms, variationCount) ==
    IF Len(baseTerms) = 0 THEN <<>>
    ELSE ExpandTerm(Head(baseTerms), variationCount)
            \o expandQueries(Tail(baseTerms), variationCount)

\* base terms of the kind fetchSourcesMultiStage builds from the project name
BaseTerms ==
    { <<"p">>, <<"p", " ", "c">>, <<"p", " ", "crypto token analysis">> }

InitExpand ==
    /\ arg \in [baseTerms : SeqsUpTo(BaseTerms, MaxTerms),
                variationCount : 0..MaxVariationCount]
    /\ ret = <<>>
    /\ applied = FALSE
    /\ PipelineNotStarted

ApplyExpand ==
    /\ ~applied
    /\ ret' = expandQueries(arg.baseTerms, arg.variationCount)
    /\ applied' = TRUE
    /\ UNCHANGED <<arg, pipeVars>>

NextExpand == ApplyExpand

SpecExpand == InitExpand /\ [][NextExpand]_vars

(* C4. expandQueries: for every list of n base terms and every variation    *)
(* count v >= 0, the output length is at least n and at most n*(v+1), and   *)
(* every base term appears in the output unmodified.                        *)
C4_ExpandBounds ==
    applied =>
        LET n == Len(arg.baseTerms)
            v == arg.variationCount
        IN  /\ Len(ret) >= n
            /\ Len(ret) <= n * (v + 1)
            /\ \A t \in 1..n : \E k \in 1..Len(ret) : ret[k] = arg.baseTerms[t]

\* the function has expanded at least two terms with more variations asked
\* for than there are suffixes
C4_Witness ==
    /\ applied
    /\ Len(arg.baseTerms) >= 2
    /\ arg.variationCount > Len(suffixes)
    /\ Len(ret) = Len(arg.baseTerms) * (Len(suffixes) + 1)

----------------------------------------------------------------------------
(* Quality scoring and tiering: processAndScoreSources,                     *)
(* calculateSourceQualityScore and the tier slices of generateAIReport      *)

\* String.prototype.includes(word) for a one-atom word
Includes(s, word) == \E i \in 1..Len(s) : s[i] = word

\* The score of calculateSourceQualityScore before its return statement, in
\* hundredths of a point so that content.length / 100 stays an integer
QualityScoreSum(source) ==
    LET lengthPart == Min(Len(source.content), 4000)
        titleWords == ToLowerCase(source.title)
        domain == ToLowerCase(source.url)
        content == ToLowerCase(source.content)
    IN  lengthPart
        + (IF Includes(titleWords, "analysis") \/ Includes(titleWords, "review") THEN 1000 ELSE 0)
        + (IF Includes(titleWords, "report") \/ Includes(titleWords, "research") THEN 1000 ELSE 0)
        + (IF Includes(domain, "cointelegraph") \/ Includes(domain, "coindesk") THEN 1500 ELSE 0)
        + (IF Includes(domain, "medium") \/ Includes(domain, "substack") THEN 1000 ELSE 0)
        + (IF Includes(domain, "github") \/ Includes(domain, "docs.") THEN 1200 ELSE 0)
        + (IF Includes(content, "tokenomics") THEN 500 ELSE 0)
        + (IF Includes(content, "whitepaper") THEN 500 ELSE 0)
        + (IF Includes(content, "audit") THEN 500 ELSE 0)
        + (IF Includes(content, "roadmap") THEN 500 ELSE 0)

\* a return statement without the cap: return score
calculateSourceQualityScore_uncapped(source) == QualityScoreSum(source)

\* calculateSourceQualityScore, in hundredths of a point: the code's score is
\* this value / 100. return Math.min(score, 100)
calculateSourceQualityScore(source) == Min(QualityScoreSum(source), 10000)

\* sources.map(source => ({...source, qualityScore})): index is the position of
\* the source in the input array (the identity of the object)
ScoreSources(srcs) ==
    [i \in 1..Len(srcs) |->
        [source |-> srcs[i], index |-> i,
         qualityScore |-> calculateSourceQualityScore(srcs[i])]]

\* a comparator for ascending scores
CompareByScore_ascending(a, b) == a.qualityScore - b.qualityScore

\* the comparator (a, b) => b.qualityScore - a.qualityScore
CompareByScore(a, b) == b.qualityScore - a.qualityScore

\* Array.prototype.sort(compare): a stable sort. Element i comes after the
\* elements that compare before it and after the earlier elements that compare
\* equal to it; its position is one more than their number.
SortByScore(scored) ==
    LET n == Len(scored)
        positions == { <<i, 1 + Cardinality({ j \in 1..n :
                            \/ CompareByScore(scored[j], scored[i]) < 0
                            \/ CompareByScore(scored[j], scored[i]) = 0 /\ j < i })>> :
                       i \in 1..n }
    IN  [k \in 1..n |-> scored[(CHOOSE p \in positions : p[2] = k)[1]]]

\* a plausible slip: the map without the sort
processAndScoreSources_unsorted(srcs) == ScoreSources(srcs)

processAndScoreSources(srcs) ==
    SortByScore(ScoreSources(srcs))

\* the argument of processAndScoreSources after the call: map() builds a new
\* array of new objects ({...source, ...}) and sort() reorders that new array,
\* so the argument keeps its elements and their order
SourcesAfterScoring(srcs) == srcs

\* tier sizes whose compressed tier begins one source late
TierSizes_compressedAfter56(processedSources) ==
    [premium    |-> Min(15, Len(processedSources)),
     standard   |-> Min(40, Max(0, Len(processedSources) - 15)),
     compressed |-> Min(100, Max(0, Len(processedSources) - 56))]

\* tier sizes without the caps
TierSizes_uncapped(processedSources) ==
    [premium    |-> Len(processedSources),
     standard   |-> Max(0, Len(processedSources) - 15),
     compressed |-> Max(0, Len(processedSources) - 55)]

\* const tierSizes = {...}
TierSizes(processedSources) ==
    [premium    |-> Min(15, Len(processedSources)),
     standard   |-> Min(40, Max(0, Len(processedSources) - 15)),
     compressed |-> Min(100, Max(0, Len(processedSources) - 55))]

\* the three slices of generateAIReport
TierSources(srcs) ==
    LET processedSources == processAndScoreSources(srcs)
        tierSizes == TierSizes(processedSources)
    IN  [processedSources  |-> processedSources,
         premiumSources    |-> Slice(processedSources, 0, tierSizes.premium),
         standardSources   |-> Slice(processedSources, tierSizes.premium,
                                     tierSizes.premium + tierSizes.standard),
         compressedSources |-> Slice(processedSources,
                                     tierSizes.premium + tierSizes.standard,
                                     tierSizes.premium + tierSizes.standard
                                        + tierSizes.compressed)]

\* Inputs of the tiering: n sources whose title, domain and content vary with
\* the position, in one of four arrangements
TierContent(k) ==
    [i \in 1..((k % 4) + 1) |-> IF i = 1 /\ k % 3 = 0 THEN "tokenomics" ELSE "x"]

TierInputSource(arrangement, i) ==
    LET k == CASE arrangement = 1 -> i
               [] arrangement = 2 -> 7 * i
               [] arrangement = 3 -> (i * i) + 1
               [] OTHER -> 0
    IN  [url     |-> IF k % 5 = 0 THEN <<"coindesk">> ELSE IF k % 5 = 1 THEN <<"github">> ELSE <<"u">>,
         title   |-> IF k % 2 = 0 THEN <<"Analysis">> ELSE <<"t">>,
         content |-> TierContent(k)]

TierInput(arrangement, n) == [i \in 1..n |-> TierInputSource(arrangement, i)]

InitTier ==
    /\ \E n \in 0..MaxTierSources, arrangement \in 1..4 : arg = TierInput(arrangement, n)
    /\ ret = <<>>
    /\ applied = FALSE
    /\ PipelineNotStarted

ApplyTier ==
    /\ ~applied
    /\ ret' = TierSources(arg)
    /\ arg' = SourcesAfterScoring(arg)
    /\ applied' = TRUE
    /\ UNCHANGED pipeVars

NextTier == ApplyTier

SpecTier == InitTier /\ [][NextTier]_vars

IndicesOf(tier) == { tier[k].index : k \in 1..Len(tier) }

(* C5. Tiering in generateAIReport: for every number of scored sources,     *)
(* premium.length + standard.length + compressed.length <= total number of  *)
(* scored sources, no source is in two tiers, and every source in the       *)
(* premium tier has a quality score >= that of every source outside the     *)
(* premium tier.                                                            *)
C5_TiersDisjointAndOrdered ==
    applied =>
        LET premium == ret.premiumSources
            standard == ret.standardSources
            compressed == ret.compressedSources
            inPremium == IndicesOf(premium)
        IN  /\ Len(premium) + Len(standard) + Len(compressed) <= Len(arg)
            /\ Cardinality(inPremium) = Len(premium)
            /\ Cardinality(IndicesOf(standard)) = Len(standard)
            /\ Cardinality(IndicesOf(compressed)) = Len(compressed)
            /\ inPremium \cap IndicesOf(standard) = {}
            /\ inPremium \cap IndicesOf(compressed) = {}
            /\ IndicesOf(standard) \cap IndicesOf(compressed) = {}
            /\ inPremium \cup IndicesOf(standard) \cup IndicesOf(compressed) \subseteq 1..Len(arg)
            /\ \A p \in 1..Len(premium) : \A i \in (1..Len(arg)) \ inPremium :
                   premium[p].qualityScore >= calculateSourceQualityScore(arg[i])

\* more than 155 sources of different scores have been tiered: the three tiers
\* are full and one source is in no tier
C5_Witness ==
    /\ applied
    /\ Len(arg) > 155
    /\ Len(ret.premiumSources) = 15
    /\ Len(ret.standardSources) = 40
    /\ Len(ret.compressedSources) = 100
    /\ \E i, j \in 1..Len(arg) :
           calculateSourceQualityScore(arg[i]) < calculateSourceQualityScore(arg[j])

----------------------------------------------------------------------------
(* llmCall and the provider call it wraps                                   *)

NoError == [status |-> 0, code |-> "none", message |-> <<>>]

\* errors openai.chat.completions.create can reject with
ProviderErrors ==
    { [status |-> 429, code |-> "none", message |-> <<"too many requests">>],
      [status |-> 0, code |-> "rate_limit_exceeded", message |-> <<"quota">>],
      [status |-> 0, code |-> "none", message |-> <<"Rate limit", " ", "reached">>],
      [status |-> 500, code |-> "none", message |-> <<"server error">>] }

\* the provider's error for a model it cannot serve
ModelNotFoundError ==
    [status |-> 404, code |-> "model_not_found", message |-> <<"model does not exist">>]

\* response.choices[0] of a response without choices
MalformedResponseError ==
    [status |-> 0, code |-> "none", message |-> <<"TypeError: cannot read properties of undefined">>]

Response(content) == [kind |-> "response", content |-> content, error |-> NoError]

Malformed == [kind |-> "malformed", content |-> Undefined, error |-> NoError]

Failure(e) == [kind |-> "error", content |-> Undefined, error |-> e]

\* what one invocation of openai.chat.completions.create can do: resolve with
\* a response whose message content is a string, an empty string or null,
\* resolve with a response without choices, or reject
ProviderOutcomes(texts) ==
    { Response(Str(t)) : t \in texts }
        \cup { Response(Null), Malformed }
        \cup { Failure(e) : e \in ProviderErrors }

\* a call of llmCall before its request is sent
NewCall ==
    [state |-> "ready", invocations |-> 0, waits |-> 0, value |-> Undefined, error |-> NoError]

\* a plausible retry loop: up to 5 attempts with a wait before each new one
LlmCallOnSettle_retrying(call, outcome) ==
    IF outcome.kind = "response"
    THEN [call EXCEPT !.state = "returned", !.value = outcome.content]
    ELSE IF call.invocations < 5
    THEN [call EXCEPT !.state = "ready", !.waits = @ + 1]
    ELSE [call EXCEPT !.state = "threw",
                      !.error = IF outcome.kind = "malformed" THEN MalformedResponseError
                                ELSE outcome.error]

\* llmCall from the settling of the awaited create() on:
\* return response.choices[0].message.content, or catch (error) { throw error }
LlmCallOnSettle(call, outcome) ==
    IF outcome.kind = "response"
    THEN [call EXCEPT !.state = "returned", !.value = outcome.content]
    ELSE IF outcome.kind = "malformed"
    THEN [call EXCEPT !.state = "threw", !.error = MalformedResponseError]
    ELSE [call EXCEPT !.state = "threw", !.error = outcome.error]

\* llmCall up to its await: one create() request is sent
LlmCallOnInvoke(call) ==
    [call EXCEPT !.state = "pending", !.invocations = @ + 1]

(* Unit specification of llmCall: arg is the behaviour of the provider      *)
(* operation, one outcome per invocation (the last one repeats).            *)

ScriptTexts == { <<"ok">>, <<>> }

InitLlmCall ==
    /\ arg \in SeqsUpTo(ProviderOutcomes(ScriptTexts) \cup { Failure(ModelNotFoundError) },
                        MaxScriptLen) \ { <<>> }
    /\ ret = NewCall
    /\ applied = FALSE
    /\ PipelineNotStarted

LlmCallInvoke ==
    /\ ~applied
    /\ ret.state = "ready"
    /\ ret' = LlmCallOnInvoke(ret)
    /\ UNCHANGED <<arg, applied, pipeVars>>

LlmCallSettle ==
    /\ ~applied
    /\ ret.state = "pending"
    /\ ret' = LlmCallOnSettle(ret, arg[Min(ret.invocations, Len(arg))])
    /\ applied' = (ret'.state \in {"returned", "threw"})
    /\ UNCHANGED <<arg, pipeVars>>

NextLlmCall == LlmCallInvoke \/ LlmCallSettle

SpecLlmCall == InitLlmCall /\ [][NextLlmCall]_vars

\* the rate-limit signature: HTTP 429, a rate-limit code, or a rate-limit
\* substring in the message
HasRateLimitSignature(e) ==
    \/ e.status = 429
    \/ e.code = "rate_limit_exceeded"
    \/ Includes(ToLowerCase(e.message), "rate limit")

\* the operation fails with a rate-limit error exactly k times, then succeeds
FailsKTimesThenSucceeds(script, k) ==
    /\ Len(script) = k + 1
    /\ \A i \in 1..k : script[i].kind = "error" /\ HasRateLimitSignature(script[i].error)
    /\ script[k + 1].kind = "response"
    /\ script[k + 1].content.kind = "string"
    /\ Len(script[k + 1].content.text) > 0

(* C6. Retry wrapper around an LLM/search call: if the wrapped operation    *)
(* fails with a rate-limit error exactly k times and then succeeds, then    *)
(* with retries > k the wrapper returns the success value and the operation *)
(* is invoked exactly k+1 times; with retries <= k the wrapper raises a     *)
(* terminal error and the operation is invoked at most retries times.       *)
C6_RetryOnRateLimit ==
    applied =>
        \A retries \in 1..MaxRetries : \A k \in 0..(Len(arg) - 1) :
            FailsKTimesThenSucceeds(arg, k) =>
                /\ retries > k =>
                        /\ ret.state = "returned"
                        /\ ret.value = arg[k + 1].content
                        /\ ret.invocations = k + 1
                /\ retries <= k =>
                        /\ ret.state = "threw"
                        /\ ret.invocations <= retries

(* C7. Retry wrapper: when the wrapped operation fails with an error that   *)
(* has no rate-limit signature (not HTTP 429, no rate-limit code, no        *)
(* rate-limit substring), the error propagates to the caller after exactly  *)
(* one invocation of the operation, with no wait and no retry.              *)
C7_OtherErrorsPropagateAtOnce ==
    (ret.state # "ready" /\ arg[1].kind = "error" /\ ~HasRateLimitSignature(arg[1].error)) =>
        /\ ret.invocations = 1
        /\ ret.waits = 0
        /\ ret.state \in {"pending", "threw"}
        /\ applied => (ret.state = "threw" /\ ret.error = arg[1].error)

\* the call has failed on a server error although the next invocation of the
\* operation would have succeeded
C7_Witness ==
    /\ applied
    /\ Len(arg) >= 2
    /\ arg[1].kind = "error"
    /\ arg[1].error.status = 500
    /\ arg[2].kind = "response"
    /\ ret.state = "threw"
    /\ ret.error = arg[1].error
    /\ ret.invocations = 1

----------------------------------------------------------------------------
(* runPipeline: one action per continuation between two awaits              *)

\* CostTracker.getTotalCost(): the accumulated cost of the process
getTotalCost == totalCost

\* logStage(stage, details) and logDebug(event, data): the entry pushed to
\* this.debugLogs (timestamps and the remaining details are not modelled);
\* a logDebug entry has no stage field
StageEntry(stage, status) ==
    [stage |-> stage, status |-> status, event |-> "", totalSources |-> 0]

DebugEntry(event, totalSources) ==
    [stage |-> "", status |-> "", event |-> event, totalSources |-> totalSources]

\* the entry put in front of the log
logStage_unshift(logs, stage, status) == <<StageEntry(stage, status)>> \o logs

logStage(logs, stage, status) == Append(logs, StageEntry(stage, status))

logDebug(logs, event, totalSources) == Append(logs, DebugEntry(event, totalSources))

StageName(key) ==
    CASE key = "gathering"   -> "Stage 1: Source Gathering"
      [] key = "extraction"  -> "Stage 2: Content Extraction"
      [] key = "synthesis"   -> "Stage 3: Synthesis"
      [] key = "speculation" -> "Stage 4: Speculation"
      [] key = "assembly"    -> "Stage 5: Final Report"
      [] key = "validation"  -> "Stage 6: Validation"

\* a revision loop without an attempt counter: a failing review sends the run
\* back to the final-report stage
StageAfter_reviseOnFail(key, value) ==
    CASE key = "synthesis"   -> "speculation"
      [] key = "speculation" -> "assembly"
      [] key = "assembly"    -> "validation"
      [] key = "validation"  ->
            IF Includes(ToLowerCase(value.text), "critical") THEN "assembly" ELSE "return"

\* the final report assembled before the speculation layer is written
StageAfter_assemblyBeforeSpeculation(key, value) ==
    CASE key = "synthesis"   -> "assembly"
      [] key = "assembly"    -> "speculation"
      [] key = "speculation" -> "validation"
      [] key = "validation"  -> "return"

\* the order of the statements of runPipeline: what follows the completion of
\* an LLM stage whose call returned value
StageAfter(key, value) ==
    CASE key = "synthesis"   -> "speculation"
      [] key = "speculation" -> "assembly"
      [] key = "assembly"    -> "validation"
      [] key = "validation"  -> "return"

\* the texts the provider can answer a stage's prompt with
StageTexts(key) ==
    IF key = "extraction" THEN { <<"extraction", " ", "summary">> }
    ELSE { <<key, " ", "ok">>, <<key, " ", "CRITICAL", " ", "gap">>, <<>> }

\* the documents the search provider can return
PipeDocs ==
    { [url |-> <<"a">>, title |-> <<"c">>, content |-> <<"x">>],
      [url |-> <<"a", "/">>, title |-> <<"A", " ", "b", " ", "C", " ", "a", " ", "b", " ", "y">>,
       content |-> <<"x", "x">>],
      [url |-> <<"b">>, title |-> <<"c">>, content |-> <<"x", "x">>] }

\* a filter that keeps the last result of each url
UniqueResults_keepsLast(allResults) ==
    SelectSeq([i \in 1..Len(allResults) |-> [i |-> i, r |-> allResults[i]]],
              LAMBDA e : \A j \in (e.i + 1)..Len(allResults) : allResults[j].url # e.r.url)

\* searchEnhanced: allResults.filter((result, index, self) =>
\*                     index === self.findIndex(r => r.url === result.url))
UniqueResults(allResults) ==
    SelectSeq([i \in 1..Len(allResults) |-> [i |-> i, r |-> allResults[i]]],
              LAMBDA e : \A j \in 1..(e.i - 1) : allResults[j].url # e.r.url)

SearchEnhancedResults(allResults) ==
    LET unique == UniqueResults(allResults)
    IN  [k \in 1..Len(unique) |-> unique[k].r]

\* the check after fetchSourcesMultiStage that is missing
NoSourcesFound_neverChecked(srcs) == FALSE

\* !sources || sources.length === 0
NoSourcesFound(srcs) == Len(srcs) = 0

\* the verdict computed without toLowerCase
ValidationPassed_caseSensitive(text) == ~Includes(text.text, "critical")

\* !validation.toLowerCase().includes('critical')
ValidationPassed(text) == ~Includes(ToLowerCase(text.text), "critical")

\* a loop without batches: every remaining source at once
BatchPositions_wholeList(i, srcs) ==
    { k \in 1..Len(srcs) : i < k /\ i < Min(Len(srcs), 50) }

\* a returned object that lists every extracted source
PipelineReport_allSources(logs, report, extracted, review) ==
    [report   |-> report,
     sources  |-> extracted,
     metadata |-> [sourcesAnalyzed |-> Len(extracted),
                   pipelineStages  |-> SelectSeq(logs, LAMBDA log : log.stage # ""),
                   validation      |-> [report |-> review,
                                        passed |-> ~Includes(ToLowerCase(review.text), "critical")]]]

\* the positions (1-based) of sources.slice(i, i + batchSize) in the loop
\* for (i = 0; i < Math.min(sources.length, 50); i += batchSize)
BatchPositions(i, srcs) ==
    { k \in (i + 1)..(i + 10) : k <= Len(srcs) /\ i < Min(Len(srcs), 50) }

\* a returned object whose report is the speculation layer
PipelineReport_speculationAsReport(logs, report, extracted, review) ==
    [report   |-> speculation,
     sources  |-> Slice(extracted, 0, 25),
     metadata |-> [sourcesAnalyzed |-> Len(extracted),
                   pipelineStages  |-> SelectSeq(logs, LAMBDA log : log.stage # ""),
                   validation      |-> [report |-> review,
                                        passed |-> ~Includes(ToLowerCase(review.text), "critical")]]]

\* the object runPipeline returns
PipelineReport(logs, report, extracted, review) ==
    [report   |-> report,
     sources  |-> Slice(extracted, 0, 25),
     metadata |-> [sourcesAnalyzed |-> Len(extracted),
                   pipelineStages  |-> SelectSeq(logs, LAMBDA log : log.stage # ""),
                   validation      |-> [report |-> review,
                                        passed |-> ValidationPassed(review)]]]

\* a catch block that, besides throwing, hands out what the run has so far
Reject_alsoReturnsPartial(logs, message) ==
    /\ pc' = "rejected"
    /\ debugLogs' = logDebug(logs, "6-Stage Pipeline failed", 0)
    /\ error' = [message |-> <<"Pipeline failed: ">> \o message]
    /\ result' = PipelineReport(debugLogs', finalReport, extractedSources, validation)
    /\ UNCHANGED llmCalls

\* the catch block of runPipeline: log the failure, throw the wrapped error
Reject(logs, message) ==
    /\ pc' = "rejected"
    /\ debugLogs' = logDebug(logs, "6-Stage Pipeline failed", 0)
    /\ error' = [message |-> <<"Pipeline failed: ">> \o message]
    /\ UNCHANGED <<result, llmCalls>>

\* logStage(..., starting) of an LLM stage and its llmCall, up to the await
StartLlmStage(logs, key) ==
    /\ pc' = key
    /\ debugLogs' = logStage(logs, StageName(key), "starting")
    /\ llmCalls' = [llmCalls EXCEPT ![key] = @ + 1]
    /\ UNCHANGED <<result, error>>

\* the result of the llmCall a stage awaits, for one outcome of the provider
StageCall(outcome) == LlmCallOnSettle(LlmCallOnInvoke(NewCall), outcome)

\* what a stage's const holds after the await: the value llmCall returned, or
\* nothing when llmCall threw
Assigned(outcome, old) ==
    IF StageCall(outcome).state = "returned" THEN StageCall(outcome).value ELSE old

\* the continuation of runPipeline after the llmCall of stage key settles:
\* report and review are finalReport and validation as they are after it
ContinueAfter(key, outcome, report, review) ==
    LET call == StageCall(outcome)
    IN  IF call.state # "returned"
        THEN Reject(debugLogs, call.error.message)
        ELSE IF call.value.kind # "string"
        THEN \* value.length of null
             Reject(debugLogs, <<"TypeError: cannot read properties of null">>)
        ELSE LET logs == logStage(debugLogs, StageName(key), "completed")
                 next == StageAfter(key, call.value)
             IN  IF next = "return"
                 THEN /\ pc' = "resolved"
                      /\ debugLogs' = logDebug(logs, "6-Stage Pipeline completed successfully", 0)
                      /\ result' = PipelineReport(debugLogs', report, extractedSources, review)
                      /\ UNCHANGED <<error, llmCalls>>
                 ELSE StartLlmStage(logs, next)

\* the extraction loop from the start of the batch at i on: either the calls of
\* the batch are sent, or the loop is over and the synthesis stage starts
StartBatchOrSynthesis(logs, i, srcs) ==
    IF BatchPositions(i, srcs) # {}
    THEN /\ pc' = "extraction"
         /\ batchStart' = i
         /\ inFlight' = BatchPositions(i, srcs)
         /\ batchResults' = <<>>
         /\ llmCalls' = [llmCalls EXCEPT !.extraction = @ + Cardinality(BatchPositions(i, srcs))]
         /\ debugLogs' = logs
         /\ UNCHANGED <<result, error>>
    ELSE /\ StartLlmStage(logStage(logs, StageName("extraction"), "completed"), "synthesis")
         /\ batchStart' = i
         /\ inFlight' = {}
         /\ batchResults' = <<>>

\* the methods of class CostTracker (CostTracker.js)
CostTrackerMethods ==
    { "getInstance", "canAffordOperation", "trackCost", "getRemainingBudget", "reset" }

\* whether this.costTracker.getTotalCost is a function: it is not one of the
\* methods of the class in CostTracker.js; the other case is a cost tracker
\* that has the method runPipeline was written against
GetTotalCostIsFunction == { "getTotalCost" \in CostTrackerMethods, TRUE }

ENHANCED_SEARCH_STRATEGY == [base |-> 15, deep |-> 20, final |-> 15, targeted |-> 10]

\* the arguments runPipeline can be called with: a project name, with or
\* without a website and a twitter handle
PipelineInputs ==
    { [projectName |-> <<"P">>, website |-> <<>>, twitter |-> <<>>],
      [projectName |-> <<"P">>, website |-> <<"https://", "p.io">>, twitter |-> <<"@p">>] }

\* input.website.replace(/^https?:\/\//, '')
WithoutScheme(website) ==
    IF Len(website) > 0 /\ website[1] \in {"http://", "https://"} THEN Tail(website) ELSE website

\* `${input.projectName} ${words}`
ProjectQuery(in, words) == in.projectName \o <<" ", words>>

\* const baseTerms of fetchSourcesMultiStage, after the two conditional pushes
StageBaseTerms(in) ==
    << in.projectName, ProjectQuery(in, "crypto"), ProjectQuery(in, "token"),
       ProjectQuery(in, "blockchain") >>
        \o (IF Len(in.website) > 0 THEN << <<"site:">> \o WithoutScheme(in.website) >> ELSE <<>>)
        \o (IF Len(in.twitter) > 0 THEN << <<"site:twitter.com", " ">> \o in.projectName >>
            ELSE <<>>)

\* the queries fetchSourcesMultiStage passes to searchEnhanced in each stage
StageQueries(stage, in) ==
    CASE stage = 1 ->
            Slice(expandQueries(StageBaseTerms(in), 3), 0, ENHANCED_SEARCH_STRATEGY.base)
      [] stage = 2 ->
            Slice(expandQueries(<< ProjectQuery(in, "team founders CEO"),
                                   ProjectQuery(in, "tokenomics supply distribution"),
                                   ProjectQuery(in, "roadmap development milestones"),
                                   ProjectQuery(in, "partnerships investors funding"),
                                   ProjectQuery(in, "use case utility value proposition"),
                                   ProjectQuery(in, "competition comparison analysis") >>, 3),
                  0, ENHANCED_SEARCH_STRATEGY.deep)
      [] stage = 3 ->
            Slice(expandQueries(<< ProjectQuery(in, "price prediction market cap"),
                                   ProjectQuery(in, "community social telegram discord"),
                                   ProjectQuery(in, "smart contract security audit"),
                                   ProjectQuery(in, "airdrop rewards incentives"),
                                   ProjectQuery(in, "listing exchange trading volume") >>, 2),
                  0, ENHANCED_SEARCH_STRATEGY.final)
      [] stage = 4 ->
            Slice(<< ProjectQuery(in, "risks concerns red flags"),
                     ProjectQuery(in, "technical implementation architecture"),
                     ProjectQuery(in, "regulatory compliance legal"),
                     ProjectQuery(in, "news updates recent developments"),
                     <<"\"">> \o in.projectName \o <<"\"", " ", "review analysis report">> >>,
                  0, ENHANCED_SEARCH_STRATEGY.targeted)

\* the options of the searchEnhanced call of each stage
StageMaxResults(stage) == <<4, 3, 3, 2>>[stage]

\* this.searchService.searchEnhanced(queries, { maxResults }) of a stage
SearchCall(stage, in) ==
    [queries |-> StageQueries(stage, in), maxResults |-> StageMaxResults(stage)]

InitPipeline ==
    /\ arg = <<>>
    /\ ret = <<>>
    /\ applied = FALSE
    /\ input \in PipelineInputs
    /\ costTrackerCalls = <<>>
    /\ searchCalls = <<>>
    /\ pc = "idle"
    /\ totalCost \in {50, 51}
    /\ searchStage = 0
    /\ allSources = <<>>
    /\ sources = <<>>
    /\ batchStart = 0
    /\ inFlight = {}
    /\ batchResults = <<>>
    /\ extractedSources = <<>>
    /\ synthesis = Undefined
    /\ speculation = Undefined
    /\ finalReport = Undefined
    /\ validation = Undefined
    /\ llmCalls = NoLlmCalls
    /\ debugLogs = <<>>
    /\ result = <<>>
    /\ error = <<>>

\* runPipeline up to the first await: the cost check, then Stage 1 starts and
\* fetchSourcesMultiStage sends the base-stage search
StartRun ==
    /\ pc = "idle"
    /\ costTrackerCalls' = Append(costTrackerCalls, "getTotalCost")
    /\ \E isFunction \in GetTotalCostIsFunction :
        IF ~isFunction
        THEN /\ Reject(debugLogs, <<"this.costTracker.getTotalCost is not a function">>)
             /\ UNCHANGED <<searchStage, searchCalls>>
        ELSE IF getTotalCost > 50
        THEN /\ Reject(debugLogs, <<"Cost limit exceeded">>)
             /\ UNCHANGED <<searchStage, searchCalls>>
        ELSE /\ pc' = "search"
             /\ searchStage' = 1
             /\ searchCalls' = Append(searchCalls, SearchCall(1, input))
             /\ debugLogs' = logStage(logDebug(debugLogs, "6-Stage Pipeline started", 0),
                                      StageName("gathering"), "starting")
             /\ UNCHANGED <<result, error, llmCalls>>
    /\ UNCHANGED <<fnVars, input, totalCost, allSources, sources, batchStart, inFlight,
                   batchResults, extractedSources, synthesis, speculation, finalReport,
                   validation>>

\* fetchSourcesMultiStage after the searchEnhanced of a stage resolves with
\* results: the next stage is searched; after the fourth stage the list is
\* deduplicated and runPipeline goes on
\* a stage whose search found nothing ends the gathering
MoreStages_unlessEmpty(stage, results) == stage < 4 /\ results # <<>>

\* after the stages base, deep and market another searchEnhanced call follows,
\* whatever the stage returned; after the stage risk the deduplication
MoreStages(stage, results) == stage < 4

SearchStageReturn(results) ==
    LET all == allSources \o results
    IN  IF MoreStages(searchStage, results)
        THEN /\ allSources' = all
             /\ searchStage' = searchStage + 1
             /\ searchCalls' = Append(searchCalls, SearchCall(searchStage + 1, input))
             /\ UNCHANGED <<pc, sources, batchStart, inFlight, batchResults, llmCalls,
                            debugLogs, result, error>>
        ELSE LET logs == logDebug(debugLogs, "multi_stage_search", Len(all))
                 srcs == deduplicateSources(all)
             IN  /\ allSources' = <<>>
                 /\ searchStage' = 0
                 /\ UNCHANGED searchCalls
                 /\ sources' = srcs
                 /\ IF NoSourcesFound(srcs)
                    THEN /\ Reject(logs, <<"No sources found for the given input">>)
                         /\ UNCHANGED <<batchStart, inFlight, batchResults>>
                    ELSE StartBatchOrSynthesis(
                            logStage(logStage(logs, StageName("gathering"), "completed"),
                                     StageName("extraction"), "starting"),
                            0, srcs)

SearchReturn ==
    /\ pc = "search"
    /\ \E raw \in SeqsUpTo(PipeDocs, MaxStageResults) :
        SearchStageReturn(SearchEnhancedResults(raw))
    /\ UNCHANGED <<fnVars, input, costTrackerCalls, totalCost, extractedSources, synthesis,
                   speculation, finalReport, validation>>

\* a callback without the inner try/catch: a failed extraction call unwinds
\* the run
ExtractCallback_rethrows(i, outcome) ==
    LET call == StageCall(outcome)
    IN  IF call.state = "returned"
        THEN /\ batchResults' = (i :> [source |-> sources[i], summary |-> call.value,
                                       extracted |-> TRUE]) @@ batchResults
             /\ inFlight' = inFlight \ {i}
             /\ UNCHANGED <<pc, llmCalls, debugLogs, result, error>>
        ELSE /\ Reject(debugLogs, call.error.message)
             /\ UNCHANGED <<batchResults, inFlight>>

\* the async callback of batch.map for sources[i], after its llmCall settles:
\* return { ...src, summary, extracted: true }, or in the catch block
\* return { ...src, summary: src.content.substring(0, 300), extracted: false }
ExtractCallback(i, outcome) ==
    LET call == StageCall(outcome)
        src == sources[i]
        settled ==
            IF call.state = "returned"
            THEN [source |-> src, summary |-> call.value, extracted |-> TRUE]
            ELSE [source |-> src, summary |-> Str(Slice(src.content, 0, 300)),
                  extracted |-> FALSE]
    IN  /\ batchResults' = (i :> settled) @@ batchResults
        /\ inFlight' = inFlight \ {i}
        /\ UNCHANGED <<pc, llmCalls, debugLogs, result, error>>

\* one of the pending extraction calls of the batch settles
ExtractSettle ==
    /\ pc = "extraction"
    /\ \E i \in inFlight, outcome \in ProviderOutcomes(StageTexts("extraction")) :
        ExtractCallback(i, outcome)
    /\ UNCHANGED <<fnVars, runVars, totalCost, searchStage, allSources, sources, batchStart,
                   extractedSources, synthesis, speculation, finalReport, validation>>

\* after Promise.all(batchPromises) resolves: push the batch, then (after the
\* delay between batches) the next batch, or the synthesis stage
ExtractBatchDone ==
    /\ pc = "extraction"
    /\ inFlight = {}
    /\ extractedSources' = extractedSources
            \o [k \in 1..Cardinality(DOMAIN batchResults) |-> batchResults[batchStart + k]]
    /\ StartBatchOrSynthesis(debugLogs, batchStart + 10, sources)
    /\ UNCHANGED <<fnVars, runVars, totalCost, searchStage, allSources, sources, synthesis, speculation,
                   finalReport, validation>>

SynthesisReturn ==
    /\ pc = "synthesis"
    /\ \E outcome \in ProviderOutcomes(StageTexts("synthesis")) :
        /\ synthesis' = Assigned(outcome, synthesis)
        /\ ContinueAfter("synthesis", outcome, finalReport, validation)
    /\ UNCHANGED <<fnVars, runVars, totalCost, searchStage, allSources, sources, batchStart, inFlight,
                   batchResults, extractedSources, speculation, finalReport, validation>>

SpeculationReturn ==
    /\ pc = "speculation"
    /\ \E outcome \in ProviderOutcomes(StageTexts("speculation")) :
        /\ speculation' = Assigned(outcome, speculation)
        /\ ContinueAfter("speculation", outcome, finalReport, validation)
    /\ UNCHANGED <<fnVars, runVars, totalCost, searchStage, allSources, sources, batchStart, inFlight,
                   batchResults, extractedSources, synthesis, finalReport, validation>>

FinalReportReturn ==
    /\ pc = "assembly"
    /\ \E outcome \in ProviderOutcomes(StageTexts("assembly")) :
        /\ finalReport' = Assigned(outcome, finalReport)
        /\ ContinueAfter("assembly", outcome, finalReport', validation)
    /\ UNCHANGED <<fnVars, runVars, totalCost, searchStage, allSources, sources, batchStart, inFlight,
                   batchResults, extractedSources, synthesis, speculation, validation>>

ValidationReturn ==
    /\ pc = "validation"
    /\ \E outcome \in ProviderOutcomes(StageTexts("validation")) :
        /\ validation' = Assigned(outcome, validation)
        /\ ContinueAfter("validation", outcome, finalReport, validation')
    /\ UNCHANGED <<fnVars, runVars, totalCost, searchStage, allSources, sources, batchStart, inFlight,
                   batchResults, extractedSources, synthesis, speculation, finalReport>>

Next ==
    \/ StartRun
    \/ SearchReturn
    \/ ExtractSettle
    \/ ExtractBatchDone
    \/ SynthesisReturn
    \/ SpeculationReturn
    \/ FinalReportReturn
    \/ ValidationReturn

Spec == InitPipeline /\ [][Next]_vars

(* C2. For any results returned by the four search stages, the list         *)
(* returned by fetchSourcesMultiStage (the deduplicated set) never contains *)
(* two documents whose normalized URLs (lower-cased, trailing slash         *)
(* stripped) are equal.                                                     *)
C2_UniqueNormalizedUrls ==
    \A i, j \in 1..Len(sources) :
        LET li == ToLowerCase(sources[i].url)
            lj == ToLowerCase(sources[j].url)
            ni == IF Len(li) > 0 /\ li[Len(li)] = "/" THEN SubSeq(li, 1, Len(li) - 1) ELSE li
            nj == IF Len(lj) > 0 /\ lj[Len(lj)] = "/" THEN SubSeq(lj, 1, Len(lj) - 1) ELSE lj
        IN  i # j => ni # nj

\* the four stages returned more documents than the deduplicated list holds,
\* and the list holds two documents
C2_Witness ==
    /\ Len(sources) = 2
    /\ \E k \in 1..Len(debugLogs) :
            /\ debugLogs[k].event = "multi_stage_search"
            /\ debugLogs[k].totalSources > Len(sources)
    /\ \E i \in 1..Len(sources) : sources[i].url = <<"a", "/">>

(* C8. In any single pipeline run, whatever the sequence of validation      *)
(* verdicts (including FAIL every time), the Assembly (final report) stage  *)
(* is invoked at most maxAttempts (2) times and the validation loop         *)
(* terminates: the run leaves the validation stage only by ending.          *)
C8_AssemblyBounded ==
    /\ [](llmCalls.assembly <= 2)
    /\ [][pc = "validation" => pc' \in {"validation", "resolved", "rejected"}]_vars

\* a run has ended after a failing review, with one final-report call made
C8_Witness ==
    /\ pc = "resolved"
    /\ validation = Str(<<"validation", " ", "CRITICAL", " ", "gap">>)
    /\ llmCalls.assembly = 1
    /\ llmCalls.validation = 1

(* C9. Validation is advisory: when the validation stage returns a failing  *)
(* verdict, runPipeline still resolves with the last assembled report, and  *)
(* the verdict is recorded in the returned metadata (passed = false for a   *)
(* failing verdict, true for a passing one); a failing verdict never causes *)
(* the run to reject.                                                       *)
C9_ValidationAdvisory ==
    LET failing == \E i \in 1..Len(validation.text) :
                        validation.text[i] \in {"critical", "Critical", "CRITICAL"}
    IN  /\ validation.kind = "string" => pc = "resolved"
        /\ pc = "resolved" =>
                /\ finalReport.kind = "string"
                /\ result.report = finalReport
                /\ result.metadata.validation.report = validation
                /\ result.metadata.validation.passed = ~failing

\* a run has resolved with a report although its review named a critical gap
C9_Witness ==
    /\ pc = "resolved"
    /\ validation = Str(<<"validation", " ", "CRITICAL", " ", "gap">>)
    /\ result.report = Str(<<"assembly", " ", "ok">>)
    /\ result.metadata.validation.passed = FALSE

(* C10. If every search stage (and any fallback query) returns zero         *)
(* sources, the pipeline run rejects with a no-sources error and no LLM     *)
(* call (extraction, synthesis, speculation, assembly, validation,          *)
(* summarization) is made in that run.                                      *)
C10_NoSourcesNoLlmCall ==
    (\E k \in 1..Len(debugLogs) :
        debugLogs[k].event = "multi_stage_search" /\ debugLogs[k].totalSources = 0) =>
            /\ pc = "rejected"
            /\ error.message = <<"Pipeline failed: ", "No sources found for the given input">>
            /\ llmCalls = NoLlmCalls
            /\ result = <<>>

\* the four searches have run, none returned a source, and the run is rejected
C10_Witness ==
    /\ pc = "rejected"
    /\ Len(sources) = 0
    /\ \E k \in 1..Len(debugLogs) :
            debugLogs[k].event = "multi_stage_search" /\ debugLogs[k].totalSources = 0

(* C11. Every LLM call the pipeline depends on is treated as failed when    *)
(* the response has empty or missing content: if the synthesis call returns *)
(* empty (or null) content, the run rejects with an error and the           *)
(* speculation, assembly and validation stages are never started.           *)
C11_EmptySynthesisRejects ==
    (synthesis.kind = "null" \/ (synthesis.kind = "string" /\ Len(synthesis.text) = 0)) =>
        /\ pc = "rejected"
        /\ error # <<>>
        /\ llmCalls.speculation = 0
        /\ llmCalls.assembly = 0
        /\ llmCalls.validation = 0

(* C12. Cost gate: at the start of every pipeline run the cost tracker is   *)
(* queried; when it denies the operation the run rejects immediately with a *)
(* budget-exceeded error and no search or LLM call is made; when it allows  *)
(* the operation the run proceeds to source gathering, and the gate is not  *)
(* queried again during that run.                                           *)
C12_CostGate ==
    pc # "idle" =>
        /\ Len(costTrackerCalls) = 1
        /\ totalCost > 50 =>
                /\ pc = "rejected"
                /\ error.message = <<"Pipeline failed: ", "Cost limit exceeded">>
                /\ searchCalls = <<>>
                /\ llmCalls = NoLlmCalls
        /\ totalCost <= 50 =>
                /\ Len(searchCalls) >= 1
                /\ \E k \in 1..Len(debugLogs) :
                        debugLogs[k] = StageEntry("Stage 1: Source Gathering", "starting")

(* C13. If any stage of a pipeline run throws, no later stage is started,   *)
(* and the caller observes exactly one outcome for the run: a single        *)
(* rejection whose message identifies the pipeline failure; a run never     *)
(* both rejects and returns a report, and never returns a partial report.   *)
C13_SingleTerminalFailure ==
    /\ [](pc = "rejected" =>
            /\ result = <<>>
            /\ Len(error.message) > 1
            /\ error.message[1] = "Pipeline failed: ")
    /\ [](pc = "resolved" =>
            /\ error = <<>>
            /\ \A value \in {synthesis, speculation, finalReport, validation} :
                    value.kind = "string"
            /\ result.report = finalReport)
    /\ [](pc \notin {"rejected", "resolved"} => (result = <<>> /\ error = <<>>))
    /\ [][pc' = "rejected" => (llmCalls' = llmCalls /\ searchCalls' = searchCalls)]_vars
    /\ [][pc = "rejected" => UNCHANGED pipeVars]_vars

\* the synthesis call threw after the extraction stage had completed: the run
\* is rejected and the later stages were not started
C13_Witness ==
    /\ pc = "rejected"
    /\ error.message = <<"Pipeline failed: ", "server error">>
    /\ Len(extractedSources) >= 1
    /\ llmCalls.synthesis = 1
    /\ llmCalls.speculation = 0
    /\ llmCalls.assembly = 0
    /\ llmCalls.validation = 0

(* C14. On a run in which every stage succeeds, the report field of the     *)
(* returned ResearchReport is exactly the output of the (last)              *)
(* Assembly-stage LLM call, not the synthesis, speculation or validation    *)
(* output.                                                                  *)
C14_ReportIsAssemblyOutput ==
    /\ [](pc = "resolved" =>
            /\ result.report = finalReport
            /\ result.report.kind = "string"
            /\ Len(result.report.text) > 0 =>
                    /\ result.report.text[1] = "assembly"
                    /\ result.report \notin {synthesis, speculation, validation})
    /\ [][finalReport' # finalReport =>
            /\ pc = "assembly"
            /\ llmCalls.assembly = 1
            /\ llmCalls' = llmCalls \/ llmCalls'.validation = 1]_vars

\* every stage has succeeded with a different text and the run has returned
C14_Witness ==
    /\ pc = "resolved"
    /\ synthesis = Str(<<"synthesis", " ", "ok">>)
    /\ speculation = Str(<<"speculation", " ", "ok">>)
    /\ validation = Str(<<"validation", " ", "ok">>)
    /\ result.report = Str(<<"assembly", " ", "ok">>)
    /\ result.metadata.validation.passed

(* C17. The gatherer reports the no-sources hard failure only after all     *)
(* search stages have run and an emergency fallback query                   *)
(* "<project name> cryptocurrency" has been issued and also returned zero   *)
(* sources; if the emergency query returns at least one source, the run     *)
(* proceeds.                                                                *)
C17_EmergencyQueryBeforeNoSources ==
    (pc = "rejected"
        /\ error.message = <<"Pipeline failed: ", "No sources found for the given input">>) =>
            /\ Len(searchCalls) > 4
            /\ \E k \in 5..Len(searchCalls) :
                    \E q \in 1..Len(searchCalls[k].queries) :
                        searchCalls[k].queries[q] = input.projectName \o <<" ", "cryptocurrency">>

(* C18. In every pipeline run the LLM stages start in the strict order      *)
(* Extraction, Synthesis, Speculation, Assembly, Validation: a stage's LLM  *)
(* call is issued only after the previous stage has completed successfully, *)
(* and synthesis, speculation, assembly and validation calls of one run     *)
(* never overlap in time.                                                   *)
C18_StagesInStrictOrder ==
    /\ [](LET order == <<"Stage 1: Source Gathering", "Stage 2: Content Extraction",
                         "Stage 3: Synthesis", "Stage 4: Speculation",
                         "Stage 5: Final Report", "Stage 6: Validation">>
              stageLogs == SelectSeq(debugLogs, LAMBDA log : log.stage # "")
              started(n) == Len(stageLogs) >= 2 * n - 1
              completed(n) == Len(stageLogs) >= 2 * n
              pending == { key \in {"synthesis", "speculation", "assembly", "validation"} :
                            pc = key }
          IN  /\ Len(stageLogs) <= 12
              /\ \A k \in 1..Len(stageLogs) :
                    /\ stageLogs[k].stage = order[(k + 1) \div 2]
                    /\ stageLogs[k].status = IF k % 2 = 1 THEN "starting" ELSE "completed"
              /\ llmCalls.extraction > 0 => started(2)
              /\ llmCalls.synthesis = (IF started(3) THEN 1 ELSE 0)
              /\ llmCalls.speculation = (IF started(4) THEN 1 ELSE 0)
              /\ llmCalls.assembly = (IF started(5) THEN 1 ELSE 0)
              /\ llmCalls.validation = (IF started(6) THEN 1 ELSE 0)
              /\ started(3) => (completed(2) /\ inFlight = {} /\ llmCalls.extraction > 0)
              /\ started(4) => (completed(3) /\ synthesis.kind = "string")
              /\ started(5) => (completed(4) /\ speculation.kind = "string")
              /\ started(6) => (completed(5) /\ finalReport.kind = "string")
              /\ Cardinality(pending) <= 1)
    /\ [][\A key \in {"synthesis", "speculation", "assembly", "validation"} :
            llmCalls'[key] > llmCalls[key] => (pc # key /\ pc' = key)]_vars

\* the validation call is pending after the four earlier LLM stages completed
C18_Witness ==
    /\ pc = "validation"
    /\ llmCalls.extraction >= 1
    /\ llmCalls.synthesis = 1
    /\ llmCalls.speculation = 1
    /\ llmCalls.assembly = 1
    /\ llmCalls.validation = 1
    /\ validation = Undefined

(* C19. Extraction stage: the failure of the extraction LLM call for any    *)
(* subset of sources (even all of them) never makes the extraction stage or *)
(* the pipeline run fail; the run continues to the synthesis stage.         *)
C19_ExtractionFailuresAbsorbed ==
    /\ [](pc = "extraction" => ENABLED (ExtractSettle \/ ExtractBatchDone))
    /\ []((pc = "rejected" /\ llmCalls.extraction > 0) => llmCalls.synthesis = 1)
    /\ [][pc = "extraction" => pc' \in {"extraction", "synthesis"}]_vars
    /\ [][(pc = "extraction" /\ pc' = "synthesis") =>
            /\ Len(extractedSources') = Min(Len(sources), 50)
            /\ llmCalls'.synthesis = 1]_vars

\* the extraction call failed for every source and the synthesis call has
\* been issued
C19_Witness ==
    /\ pc = "synthesis"
    /\ Len(sources) >= 2
    /\ Len(extractedSources) = Len(sources)
    /\ \A k \in 1..Len(extractedSources) : ~extractedSources[k].extracted
    /\ llmCalls.synthesis = 1

(* C20. Extraction stage: a source whose extraction call failed is dropped  *)
(* from the extraction output, so it does not appear in the input given to  *)
(* the synthesis stage nor in the sources of the returned report.           *)
C20_FailedExtractionDropped ==
    /\ \A k \in 1..Len(extractedSources) : extractedSources[k].extracted
    /\ pc = "resolved" =>
            \A k \in 1..Len(result.sources) : result.sources[k].extracted

----------------------------------------------------------------------------
(* EnhancedSearchService (second class of EnhancedSearchService.js):        *)
(* validateQuery, sanitizeQuery, attemptSearch, searchSingle, searchEnhanced *)

\* the characters of the queries of the model: each atom stands for one
\* character, or for a word made of word characters
WordAtoms ==
    { "a", "token", "test", "site", "OR", "twitter.com", "medium.com", "github.com",
      "coingecko.com", "coinmarketcap.com", "coindesk.com", "cointelegraph.com" }

IsWhitespace(ch) == ch \in {" ", "\n"}

\* the class [\w\s\-_.@#] of sanitizeQuery
InSafeClass(ch) == ch \in WordAtoms \/ IsWhitespace(ch) \/ ch \in {"-", "_", ".", "@", "#"}

RECURSIVE TrimStart(_)
TrimStart(s) == IF Len(s) > 0 /\ IsWhitespace(Head(s)) THEN TrimStart(Tail(s)) ELSE s

RECURSIVE TrimEnd(_)
TrimEnd(s) ==
    IF Len(s) > 0 /\ IsWhitespace(s[Len(s)]) THEN TrimEnd(SubSeq(s, 1, Len(s) - 1)) ELSE s

\* String.prototype.trim
Trim(s) == TrimEnd(TrimStart(s))

\* .replace(/[^\w\s\-_.@#]/g, ' ')
ReplaceUnsafe(s) == [i \in 1..Len(s) |-> IF InSafeClass(s[i]) THEN s[i] ELSE " "]

\* .replace(/\s+/g, ' ')
RECURSIVE CollapseWhitespace(_)
CollapseWhitespace(s) ==
    IF Len(s) = 0 THEN <<>>
    ELSE IF IsWhitespace(Head(s))
    THEN <<" ">> \o CollapseWhitespace(TrimStart(s))
    ELSE <<Head(s)>> \o CollapseWhitespace(Tail(s))

\* validateQuery(query): query is a JavaScript value
validateQuery(query) ==
    IF query.kind # "string" \/ Len(query.text) = 0
    THEN FALSE
    ELSE Len(Trim(query.text)) > 0 /\ Len(Trim(query.text)) <= 1000

\* sanitizeQuery(query): the text of the string it returns
sanitizeQuery(query) ==
    IF query.kind # "string" \/ Len(query.text) = 0
    THEN <<>>
    ELSE Slice(CollapseWhitespace(ReplaceUnsafe(Trim(query.text))), 0, 1000)

\* isCryptoQuery(query), for the keywords the model's queries can hold
isCryptoQuery(query) ==
    \E keyword \in {"crypto", "cryptocurrency", "bitcoin", "ethereum", "token", "defi",
                    "blockchain", "coin"} : Includes(ToLowerCase(query), keyword)

\* payload.query of attemptSearch(query, maxResults, searchDepth, useDomainFiltering)
PayloadQuery(query, useDomainFiltering) ==
    IF useDomainFiltering /\ isCryptoQuery(query)
    THEN query \o <<" ", "(", "site", ":", "twitter.com", " ", "OR", " ",
                    "site", ":", "medium.com", " ", "OR", " ",
                    "site", ":", "github.com", " ", "OR", " ",
                    "site", ":", "coingecko.com", " ", "OR", " ",
                    "site", ":", "coinmarketcap.com", " ", "OR", " ",
                    "site", ":", "coindesk.com", " ", "OR", " ",
                    "site", ":", "cointelegraph.com", ")">>
    ELSE query

\* what the provider can do with one request: answer 200 with a results
\* array, with an object without results, with results that is not an array,
\* with a body that is not JSON, answer with a non-success status, or not
\* answer at all (fetch rejects)
FetchOutcomes ==
    {"results", "noResultsField", "notArray", "notJson", "httpError", "transportError"}

ProviderDoc == [title |-> <<>>, url |-> <<"a">>, raw_content |-> <<>>, content |-> <<"x">>]

\* the callback of data.results.map
ResultOf(r) ==
    [title   |-> IF Len(r.title) > 0 THEN r.title ELSE <<"No Title">>,
     url     |-> r.url,
     content |-> IF Len(r.raw_content) > 0 THEN r.raw_content ELSE r.content]

\* the try block of attemptSearch, from the settling of fetch on
AttemptSearchTry(outcome) ==
    CASE outcome = "results"        -> [threw |-> FALSE, results |-> <<ResultOf(ProviderDoc)>>]
      [] outcome = "noResultsField" -> [threw |-> FALSE, results |-> <<>>]
      [] OTHER                      -> [threw |-> TRUE, results |-> <<>>]

\* attemptSearch without its catch block
attemptSearch_noCatch(outcome) == AttemptSearchTry(outcome)

\* attemptSearch: catch (error) { return { results: [], ... } }
attemptSearch(outcome) ==
    IF AttemptSearchTry(outcome).threw
    THEN [threw |-> FALSE, results |-> <<>>]
    ELSE AttemptSearchTry(outcome)

\* a connection test that is never done
testConnection_alwaysOk(outcome) == TRUE

\* testConnection: response.ok, or false from the catch block
testConnection(outcome) == outcome \notin {"httpError", "transportError"}

MaxQueryLen == 3

MaxFetchScriptLen == 2

\* a call of searchSingle or searchEnhanced before it has run
\* options: useFallback (default true) and queryLimit, where 0 stands for the
\* values that make `options.queryLimit || 25` take 25 (undefined, 0).
\* singles: the arguments of the searchSingle calls; attempts: the
\* attemptSearch calls with the number of results each returned (-1: pending)
NewSearch(entry) ==
    [entry |-> entry, state |-> "ready", phase |-> "none", queue |-> <<>>, query |-> <<>>,
     attempt |-> 0, fetches |-> 0, requests |-> <<>>, allResults |-> <<>>, results |-> <<>>,
     options |-> [useFallback |-> TRUE, queryLimit |-> 0], totalQueries |-> 0,
     singles |-> <<>>, attempts |-> <<>>]

\* attemptSearch up to its await: the request with payload.query is sent
SendAttempt(search, query, attempt, searchDepth, useDomainFiltering) ==
    [search EXCEPT !.state = "fetching", !.phase = "attempt", !.query = query,
                   !.attempt = attempt,
                   !.requests = Append(@, PayloadQuery(query, useDomainFiltering)),
                   !.attempts = Append(@, [single |-> Len(search.singles),
                                           search_depth |-> searchDepth,
                                           useDomainFiltering |-> useDomainFiltering,
                                           results |-> -1])]

\* searchSingle(query) up to its first await, and what follows the return of
\* a searchSingle call: for searchSingle itself the caller gets the results;
\* in the loop of searchEnhanced the results are pushed and the next query is
\* searched, or the unique results are returned
RECURSIVE BeginSingle(_, _), AfterSingle(_, _)
BeginSingle(search, query) ==
    LET called == [search EXCEPT !.singles = Append(@, query)]
    IN  IF ~validateQuery(query)
        THEN AfterSingle(called, <<>>)
        ELSE SendAttempt(called, sanitizeQuery(query), 1, "advanced", TRUE)

AfterSingle(search, results) ==
    IF search.entry = "searchSingle"
    THEN [search EXCEPT !.state = "resolved", !.results = results, !.totalQueries = 1]
    ELSE LET pushed == [search EXCEPT !.allResults = @ \o results, !.totalQueries = @ + 1]
         IN  IF Len(search.queue) = 0
             THEN [pushed EXCEPT !.state = "resolved",
                                 !.results = SearchEnhancedResults(pushed.allResults)]
             ELSE BeginSingle([pushed EXCEPT !.queue = Tail(@)], Str(Head(search.queue)))

\* const validQueries of searchEnhanced
ValidQueries(queries, options) ==
    LET queryLimit == IF options.queryLimit = 0 THEN 25 ELSE options.queryLimit
        valid == SelectSeq(Slice(queries, 0, queryLimit), validateQuery)
    IN  [k \in 1..Len(valid) |-> sanitizeQuery(valid[k])]

\* fallbacks tried whatever options.useFallback says
FallbackWanted_always(search, results) == search.attempt < 3 /\ Len(results) = 0

\* searchSingle after an attempt: another one follows when useFallback is set,
\* the attempt returned no result and it was not the third
FallbackWanted(search, results) ==
    search.options.useFallback /\ search.attempt < 3 /\ Len(results) = 0

\* the call up to its first await
SearchOnCall(search, queries) ==
    IF search.entry = "searchSingle"
    THEN BeginSingle(search, queries[1])
    ELSE [search EXCEPT !.state = "fetching", !.phase = "test",
                        !.requests = Append(@, <<"test">>)]

\* the call from the settling of the awaited fetch on
SearchOnSettle(search, queries, outcome) ==
    IF search.phase = "test"
    THEN IF ~testConnection(outcome)
         THEN [search EXCEPT !.state = "resolved", !.results = <<>>]
         ELSE IF Len(ValidQueries(queries, search.options)) = 0
         THEN [search EXCEPT !.state = "resolved", !.results = <<>>]
         ELSE BeginSingle([search EXCEPT !.queue = Tail(ValidQueries(queries, search.options))],
                          Str(Head(ValidQueries(queries, search.options))))
    ELSE LET searchResult == attemptSearch(outcome)
             settled == [search EXCEPT
                            !.attempts[Len(search.attempts)].results = Len(searchResult.results)]
         IN  IF searchResult.threw
             THEN [search EXCEPT !.state = "rejected"]
             ELSE IF FallbackWanted(search, searchResult.results)
             THEN SendAttempt(settled, search.query, search.attempt + 1,
                              IF search.attempt = 1 THEN "advanced" ELSE "basic", FALSE)
             ELSE AfterSingle(settled, searchResult.results)

(* Unit specification of the search service: arg is the call and the        *)
(* behaviour of the provider, one outcome per request (the last repeats).   *)

QueryAtoms == {"a", " ", "\"", "token"}

Queries == { Str(t) : t \in SeqsUpTo(QueryAtoms, MaxQueryLen) } \cup { Null }

InitSearch ==
    /\ arg \in { [entry |-> e, queries |-> IF e = "searchSingle" THEN <<q>> ELSE <<q, Str(<<"a">>)>>,
                  options |-> o, script |-> s] :
                    e \in {"searchSingle", "searchEnhanced"}, q \in Queries,
                    o \in [useFallback : BOOLEAN, queryLimit : {0, 1}],
                    s \in SeqsUpTo(FetchOutcomes, MaxFetchScriptLen) \ { <<>> } }
    /\ ret = [NewSearch(arg.entry) EXCEPT !.options = arg.options]
    /\ applied = FALSE
    /\ PipelineNotStarted

SearchCallStart ==
    /\ ~applied
    /\ ret.state = "ready"
    /\ ret' = SearchOnCall(ret, arg.queries)
    /\ applied' = (ret'.state \in {"resolved", "rejected"})
    /\ UNCHANGED <<arg, pipeVars>>

SearchFetchSettle ==
    /\ ~applied
    /\ ret.state = "fetching"
    /\ ret' = SearchOnSettle([ret EXCEPT !.fetches = @ + 1], arg.queries,
                             arg.script[Min(ret.fetches + 1, Len(arg.script))])
    /\ applied' = (ret'.state \in {"resolved", "rejected"})
    /\ UNCHANGED <<arg, pipeVars>>

NextSearch == SearchCallStart \/ SearchFetchSettle

SpecSearch == InitSearch /\ [][NextSearch]_vars

(* C15. Search boundary: for every valid query, when the provider answers   *)
(* with an HTTP non-success status, a transport error or a malformed        *)
(* payload, searchSingle (and therefore searchEnhanced) resolves with an    *)
(* empty results list and never rejects.                                    *)
C15_SearchNeverRejects ==
    /\ ret.state # "rejected"
    /\ applied =>
        /\ ret.state = "resolved"
        /\ (\A i \in 1..Len(arg.script) :
                arg.script[i] \in {"httpError", "transportError", "notArray", "notJson"})
            => ret.results = <<>>

\* searchSingle of a valid query has resolved with no results after the
\* provider failed on each of its three requests, once with a non-success
\* status and then with malformed payloads
C15_Witness ==
    /\ applied
    /\ arg.entry = "searchSingle"
    /\ arg.queries = << Str(<<"a">>) >>
    /\ arg.script = <<"httpError", "notArray">>
    /\ ret.fetches = 3
    /\ ret.state = "resolved"
    /\ ret.results = <<>>

(* C16. Every query string placed in a search request sent to the provider  *)
(* by searchSingle or searchEnhanced is sanitized: it has no leading or     *)
(* trailing whitespace, contains only characters of the safe set (word      *)
(* characters, whitespace, '-', '_', '.', '@', '#'), and is at most 1000    *)
(* characters long.                                                         *)
C16_RequestQueriesSanitized ==
    \A k \in 1..Len(ret.requests) :
        LET q == ret.requests[k]
        IN  /\ Len(q) <= 1000
            /\ Len(q) > 0 => (q[1] # " " /\ q[Len(q)] # " ")
            /\ \A i \in 1..Len(q) : q[i] \in WordAtoms \cup {" ", "-", "_", ".", "@", "#"}

----------------------------------------------------------------------------
(* runPipeline on many sources: the base stage of the search returns arg.n  *)
(* different documents, the later stages none, and every extraction call    *)
(* settles the way arg.extraction says                                      *)

MaxGatheredSources == 27

Digit(d) == <<"0", "1", "2", "3", "4", "5", "6", "7", "8", "9">>[d + 1]

\* the k-th of the documents: url, title and content differ with k
GatheredDoc(k) ==
    [url     |-> <<"u", Digit(k \div 10), Digit(k % 10)>>,
     title   |-> <<"t", Digit(k \div 10), Digit(k % 10)>>,
     content |-> <<"x", Digit(k \div 10), Digit(k % 10)>>]

GatheredDocs(n) == [k \in 1..n |-> GatheredDoc(k)]

InitExtraction ==
    /\ arg \in [n : 0..MaxGatheredSources,
                extraction : { Response(Str(<<"extraction", " ", "summary">>)),
                               Failure([status |-> 500, code |-> "none",
                                        message |-> <<"server error">>]) }]
    /\ ret = <<>>
    /\ applied = FALSE
    /\ input = [projectName |-> <<"P">>, website |-> <<>>, twitter |-> <<>>]
    /\ costTrackerCalls = <<>>
    /\ searchCalls = <<>>
    /\ pc = "idle"
    /\ totalCost = 50
    /\ searchStage = 0
    /\ allSources = <<>>
    /\ sources = <<>>
    /\ batchStart = 0
    /\ inFlight = {}
    /\ batchResults = <<>>
    /\ extractedSources = <<>>
    /\ synthesis = Undefined
    /\ speculation = Undefined
    /\ finalReport = Undefined
    /\ validation = Undefined
    /\ llmCalls = NoLlmCalls
    /\ debugLogs = <<>>
    /\ result = <<>>
    /\ error = <<>>

\* the searchEnhanced call of a stage resolves
GatherStageReturn ==
    /\ pc = "search"
    /\ SearchStageReturn(IF searchStage = 1 THEN GatheredDocs(arg.n) ELSE <<>>)
    /\ UNCHANGED <<fnVars, input, costTrackerCalls, totalCost, extractedSources, synthesis,
                   speculation, finalReport, validation>>

\* one of the pending extraction calls of the batch settles
ExtractSettleAsGiven ==
    /\ pc = "extraction"
    /\ \E i \in inFlight : ExtractCallback(i, arg.extraction)
    /\ UNCHANGED <<fnVars, runVars, totalCost, searchStage, allSources, sources, batchStart,
                   extractedSources, synthesis, speculation, finalReport, validation>>

NextExtraction ==
    \/ StartRun
    \/ GatherStageReturn
    \/ ExtractSettleAsGiven
    \/ ExtractBatchDone
    \/ SynthesisReturn
    \/ SpeculationReturn
    \/ FinalReportReturn
    \/ ValidationReturn

SpecExtraction == InitExtraction /\ [][NextExtraction]_vars

(* C21. Extraction stage concurrency: sources are processed in batches of   *)
(* fixed size 10; all extraction calls of a batch are started together and  *)
(* the next batch is not started until every call of the current batch has  *)
(* settled, so at most 10 extraction calls are in flight at any time.       *)
C21_BatchesOfTen ==
    /\ [](/\ Cardinality(inFlight) <= 10
          /\ batchStart % 10 = 0
          /\ pc = "extraction" =>
                LET batch == { k \in 1..Len(sources) : batchStart < k /\ k <= batchStart + 10 }
                IN  /\ inFlight \cup DOMAIN batchResults = batch
                    /\ inFlight \cap DOMAIN batchResults = {}
                    /\ Len(extractedSources) = batchStart
                    /\ llmCalls.extraction = batchStart + Cardinality(batch)
          /\ pc # "extraction" => inFlight = {})
    /\ [][~(inFlight' \subseteq inFlight) => inFlight = {}]_vars
    /\ [][batchStart' # batchStart => (inFlight = {} /\ batchStart' = batchStart + 10)]_vars

\* the ten calls of the second batch are in flight after the ten of the first
\* batch have settled, and more sources wait for a third batch
C21_Witness ==
    /\ pc = "extraction"
    /\ Len(sources) > 20
    /\ batchStart = 10
    /\ Cardinality(inFlight) = 10
    /\ Len(extractedSources) = 10
    /\ llmCalls.extraction = 20

----------------------------------------------------------------------------
(* C22. Source gathering: the stages run in the fixed order base, deep,     *)
(* market, risk. A failure of the search provider or an empty result in one *)
(* stage never prevents the later stages from running, and the sources of   *)
(* every stage are all passed to the deduplicator.                          *)
C22_AllStagesRunAndFeedDedup ==
    /\ [](/\ Len(searchCalls) <= 4
          /\ \A k \in 1..Len(searchCalls) : searchCalls[k] = SearchCall(k, input)
          /\ pc = "search" => (searchStage \in 1..4 /\ Len(searchCalls) = searchStage)
          /\ pc \in {"extraction", "synthesis", "speculation", "assembly", "validation",
                     "resolved"} => Len(searchCalls) = 4
          /\ (pc = "rejected" /\ error.message = <<"Pipeline failed: ", "No sources found for the given input">>)
                => Len(searchCalls) = 4)
    /\ [][(pc = "search" /\ searchStage < 4) =>
            /\ pc' = "search"
            /\ searchStage' = searchStage + 1
            /\ searchCalls' = Append(searchCalls, SearchCall(searchStage + 1, input))
            /\ Len(allSources') >= Len(allSources)
            /\ SubSeq(allSources', 1, Len(allSources)) = allSources]_vars
    /\ [][(pc = "search" /\ searchStage = 4) =>
            \E raw \in SeqsUpTo(PipeDocs, MaxStageResults) :
                LET all == allSources \o SearchEnhancedResults(raw)
                IN  /\ sources' = deduplicateSources(all)
                    /\ debugLogs'[Len(debugLogs) + 1] =
                            DebugEntry("multi_stage_search", Len(all))]_vars

\* the stages base, deep and market found nothing, the search of the stage
\* risk was still started
C22_Witness ==
    /\ pc = "search"
    /\ searchStage = 4
    /\ allSources = <<>>
    /\ searchCalls = [k \in 1..4 |-> SearchCall(k, input)]


(* C23. Source gathering: when an essential stage returns zero sources,     *)
(* exactly one retry is made for that stage, using only the stage's first   *)
(* term as a single direct query, before the gatherer moves on; a stage     *)
(* that is not essential is not retried. Here for the first stage, base     *)
(* discovery: once the gatherer has moved on to the stage deep with no      *)
(* source found, the call after the base call is the retry with the single  *)
(* query of the first base term.                                            *)
C23_EssentialStageRetriedOnce ==
    (pc = "search" /\ searchStage = 2 /\ allSources = <<>>) =>
        /\ Len(searchCalls) = 3
        /\ searchCalls[1] = SearchCall(1, input)
        /\ searchCalls[2].queries = << StageBaseTerms(input)[1] >>
        /\ searchCalls[3] = SearchCall(2, input)

----------------------------------------------------------------------------
(* summarizeSources and summarizeBatch                                      *)
(*                                                                          *)
(* A text is a sequence of characters; "Source " stands for the seven       *)
(* characters of that word and its space.                                   *)

MaxSummarySources == 9

DigitAtoms == {"0", "1", "2", "3", "4", "5", "6", "7", "8", "9"}

\* const batchSize = mode === 'compressed' ? 8 : 4
SummaryBatchSize(mode) == IF mode = "compressed" THEN 8 ELSE 4

\* const targetSummaryLength = mode === 'compressed' ? 150 : 300
targetSummaryLength(mode) == IF mode = "compressed" THEN 150 ELSE 300

\* the length of the run of digits of text that starts at position i
RECURSIVE DigitsFrom(_, _)
DigitsFrom(text, i) ==
    IF i <= Len(text) /\ text[i] \in DigitAtoms THEN 1 + DigitsFrom(text, i + 1) ELSE 0

\* the length of the match of /Source \d+:|^\d+\./gm at position i, 0 for none
MarkerAt(text, i) ==
    LET afterWord == DigitsFrom(text, i + 1)
        atLineStart == DigitsFrom(text, i)
    IN  IF /\ text[i] = "Source "
           /\ afterWord > 0
           /\ i + 1 + afterWord <= Len(text)
           /\ text[i + 1 + afterWord] = ":"
        THEN 2 + afterWord
        ELSE IF /\ i = 1 \/ text[i - 1] = "\n"
                /\ atLineStart > 0
                /\ i + atLineStart <= Len(text)
                /\ text[i + atLineStart] = "."
             THEN atLineStart + 1
             ELSE 0

\* summaryText.split(/Source \d+:|^\d+\./gm). No two matches overlap (a match
\* begins with "Source " or with a digit at the start of a line, and neither
\* occurs inside a match), so the matches of the scan from left to right are
\* the positions where the pattern matches; the parts lie between them.
SplitSummaryText(text) ==
    LET starts == { i \in 1..Len(text) : MarkerAt(text, i) > 0 }
        nth(j) == CHOOSE i \in starts : Cardinality({ m \in starts : m < i }) = j - 1
        from(j) == IF j = 1 THEN 1 ELSE nth(j - 1) + MarkerAt(text, nth(j - 1))
        to(j) == IF j = Cardinality(starts) + 1 THEN Len(text) ELSE nth(j) - 1
    IN  [j \in 1..(Cardinality(starts) + 1) |-> SubSeq(text, from(j), to(j))]

\* .split(...).slice(1).map(s => s.trim()).filter(s => s.length > 20)
ParseSummaries(summaryText) ==
    LET parts == Tail(SplitSummaryText(summaryText))
        trimmed == [k \in 1..Len(parts) |-> Trim(parts[k])]
    IN  SelectSeq(trimmed, LAMBDA part : Len(part) > 20)

\* `Summary not available for ${sources[summaries.length].title}`
SummaryPlaceholder(source) == <<"Summary not available for ">> \o source.title

\* while (summaries.length < sources.length) summaries.push(placeholder)
FillSummaries(summaries, srcs) ==
    [k \in 1..Max(Len(summaries), Len(srcs)) |->
        IF k <= Len(summaries) THEN summaries[k] ELSE SummaryPlaceholder(srcs[k])]

\* the fill without the slice of the return statement
OnePerSource_notCut(summaries, srcs) == FillSummaries(summaries, srcs)

\* the while loop and `return summaries.slice(0, sources.length)`
OnePerSource(summaries, srcs) ==
    Slice(FillSummaries(summaries, srcs), 0, Len(srcs))

\* source.content.substring(0, targetSummaryLength)
\*     + (source.content.length > targetSummaryLength ? '...' : '')
TruncatedContent(source, mode) ==
    Slice(source.content, 0, targetSummaryLength(mode))
        \o (IF Len(source.content) > targetSummaryLength(mode) THEN <<".", ".", ".">> ELSE <<>>)

\* the try block of summarizeBatch, from the settling of create() on: reading
\* choices[0] of a response without choices, or calling split on a null
\* content, throws a TypeError
SummarizeBatchTry(srcs, mode, outcome) ==
    IF outcome.kind = "response" /\ outcome.content.kind = "string"
    THEN LET summaries == ParseSummaries(outcome.content.text)
         IN  [threw     |-> FALSE,
              summaries |-> OnePerSource(summaries, srcs),
              log       |-> DebugEntry("batch_summarization",
                                       Len(FillSummaries(summaries, srcs)))]
    ELSE [threw |-> TRUE, summaries |-> <<>>, log |-> DebugEntry("", 0)]

\* summarizeBatch without its catch block
summarizeBatch_noCatch(srcs, mode, outcome) == SummarizeBatchTry(srcs, mode, outcome)

\* summarizeBatch: the catch block logs and returns the truncated contents
summarizeBatch(srcs, mode, outcome) ==
    IF SummarizeBatchTry(srcs, mode, outcome).threw
    THEN [threw     |-> FALSE,
          summaries |-> [k \in 1..Len(srcs) |-> TruncatedContent(srcs[k], mode)],
          log       |-> DebugEntry("summarization_error", 0)]
    ELSE SummarizeBatchTry(srcs, mode, outcome)

\* the batch of the loop iteration that starts at i
SummaryBatch(srcs, mode, i) == Slice(srcs, i, i + SummaryBatchSize(mode))

\* summarizeSources between two awaits. call: the summarizeBatch call that
\* is pending; calls: the calls that returned, with what create() did
NewSummarize ==
    [state |-> "ready", i |-> 0, summaries |-> <<>>, calls |-> <<>>, debugLogs |-> <<>>]

SummarizeLoop(r, srcs) ==
    IF r.i < Len(srcs) THEN [r EXCEPT !.state = "summarizing"]
    ELSE [r EXCEPT !.state = "resolved"]

SummarizeOnCall(r, srcs) == SummarizeLoop([r EXCEPT !.i = 0], srcs)

\* await this.summarizeBatch(batch, mode) returns or throws
SummarizeOnBatchSettle(r, srcs, mode, outcome) ==
    LET batch == SummaryBatch(srcs, mode, r.i)
        done == summarizeBatch(batch, mode, outcome)
    IN  IF done.threw
        THEN [r EXCEPT !.state = "rejected",
                       !.calls = Append(@, [i |-> r.i, outcome |-> outcome, summaries |-> <<>>])]
        ELSE [r EXCEPT !.state = "waiting",
                       !.summaries = @ \o done.summaries,
                       !.calls = Append(@, [i |-> r.i, outcome |-> outcome,
                                            summaries |-> done.summaries]),
                       !.debugLogs = Append(@, done.log)]

\* the one-second timer of the loop fires: i += batchSize
SummarizeOnDelay(r, srcs, mode) ==
    SummarizeLoop([r EXCEPT !.i = @ + SummaryBatchSize(mode)], srcs)

\* the body of the j-th summary of a response: 21 characters, or 20 when short
SummaryBody(j, short) ==
    <<"s", Digit(j)>> \o [n \in 1..(IF short THEN 18 ELSE 19) |-> "x"]

\* a response text with k summaries, each after "Source j:" or, numbered, after
\* "j." at the start of a line; the summary at position shortAt is short
SummaryText(numbered, k, shortAt) ==
    LET item(j) == (IF numbered THEN <<Digit(j), ".">> ELSE <<"Source ", Digit(j), ":">>)
                      \o <<" ">> \o SummaryBody(j, j = shortAt) \o <<"\n">>
        items[j \in 0..k] == IF j = 0 THEN <<"H", "e", "r", "e", ":", "\n">>
                             ELSE items[j - 1] \o item(j)
    IN  items[k]

\* what the create() call of a batch of b sources can do
SummaryOutcomes(b) ==
    { Response(Str(SummaryText(FALSE, k, shortAt))) :
            k \in { n \in {0, b - 1, b, b + 1} : n >= 0 }, shortAt \in {0, 1} }
        \cup { Response(Str(SummaryText(TRUE, b, 0))), Response(Str(<<>>)), Response(Null),
               Malformed,
               Failure([status |-> 500, code |-> "none", message |-> <<"server error">>]) }

\* the k-th source of the list: its content has the given length
SummarySource(k, length) ==
    [title   |-> <<"t", Digit(k \div 10), Digit(k % 10)>>,
     url     |-> <<"u", Digit(k \div 10), Digit(k % 10)>>,
     content |-> [n \in 1..length |-> IF n = 1 THEN Digit(k % 10) ELSE "c"]]

\* content lengths around the two target lengths
SummaryContentLengths == {0, 150, 151, 300, 301}

InitSummarize ==
    /\ arg \in { [sources |-> [k \in 1..n |-> SummarySource(k, length)], mode |-> mode] :
                    n \in 0..MaxSummarySources, length \in SummaryContentLengths,
                    mode \in {"standard", "compressed"} }
    /\ ret = NewSummarize
    /\ applied = FALSE
    /\ PipelineNotStarted

SummarizeCall ==
    /\ ~applied
    /\ ret.state = "ready"
    /\ ret' = SummarizeOnCall(ret, arg.sources)
    /\ applied' = (ret'.state \in {"resolved", "rejected"})
    /\ UNCHANGED <<arg, pipeVars>>

SummarizeBatchSettle ==
    /\ ~applied
    /\ ret.state = "summarizing"
    /\ \E outcome \in SummaryOutcomes(Len(SummaryBatch(arg.sources, arg.mode, ret.i))) :
            ret' = SummarizeOnBatchSettle(ret, arg.sources, arg.mode, outcome)
    /\ applied' = (ret'.state \in {"resolved", "rejected"})
    /\ UNCHANGED <<arg, pipeVars>>

SummarizeDelayDone ==
    /\ ~applied
    /\ ret.state = "waiting"
    /\ ret' = SummarizeOnDelay(ret, arg.sources, arg.mode)
    /\ applied' = (ret'.state \in {"resolved", "rejected"})
    /\ UNCHANGED <<arg, pipeVars>>

NextSummarize == SummarizeCall \/ SummarizeBatchSettle \/ SummarizeDelayDone

SpecSummarize == InitSummarize /\ [][NextSummarize]_vars

\* the number of summaries the parse finds in what create() returned
ParsedCount(outcome) ==
    IF outcome.kind = "response" /\ outcome.content.kind = "string"
    THEN Len(ParseSummaries(outcome.content.text))
    ELSE 0

(* C24. summarizeSources/summarizeBatch: for every input list of sources    *)
(* and every LLM response (fewer summaries than sources, more, or exactly   *)
(* as many), the returned list has exactly one entry per input source:      *)
(* missing entries are filled with a placeholder and extra entries are      *)
(* dropped.                                                                 *)
C24_OneSummaryPerSource ==
    /\ \A c \in 1..Len(ret.calls) :
          LET call == ret.calls[c]
              batch == SummaryBatch(arg.sources, arg.mode, call.i)
          IN  /\ Len(call.summaries) = Len(batch)
              /\ (call.outcome.kind = "response" /\ call.outcome.content.kind = "string") =>
                    LET parsed == ParseSummaries(call.outcome.content.text)
                    IN  \A k \in 1..Len(batch) :
                            call.summaries[k] =
                                IF k <= Len(parsed) THEN parsed[k]
                                ELSE SummaryPlaceholder(batch[k])
    /\ ret.state = "waiting" =>
            Len(ret.summaries) = Min(ret.i + SummaryBatchSize(arg.mode), Len(arg.sources))
    /\ ret.state = "summarizing" => Len(ret.summaries) = ret.i
    /\ ret.state = "resolved" => Len(ret.summaries) = Len(arg.sources)

\* summarizeSources returned after one batch whose response had a summary too
\* few and one whose response had a summary too many
C24_Witness ==
    /\ ret.state = "resolved"
    /\ Len(arg.sources) > 0
    /\ \E c, d \in 1..Len(ret.calls) :
          /\ ParsedCount(ret.calls[c].outcome)
                < Len(SummaryBatch(arg.sources, arg.mode, ret.calls[c].i))
          /\ ret.calls[c].outcome.kind = "response"
          /\ ret.calls[c].outcome.content.kind = "string"
          /\ ParsedCount(ret.calls[d].outcome)
                > Len(SummaryBatch(arg.sources, arg.mode, ret.calls[d].i))


\* create() rejected, resolved without choices, or resolved with a null content
SummaryCallFailed(outcome) ==
    ~(outcome.kind = "response" /\ outcome.content.kind = "string")

----------------------------------------------------------------------------
(* calculateSourceQualityScore on sources of every kind                     *)

MaxScoreContentLength == 4001

\* the domains, titles and keyword sets that earn the bonuses of the function
ScoreUrls ==
    { <<"u">>, <<"coindesk">>, <<"medium">>, <<"docs.">>, <<"Cointelegraph", "substack">>,
      <<"coindesk", "medium", "github">> }

ScoreTitles == { <<"t">>, <<"Analysis">>, <<"research">>, <<"review", " ", "report">> }

ScoreKeywords == <<"tokenomics", "whitepaper", "audit", "roadmap">>

\* a content of the given length that begins with the first k keywords
ScoreContent(k, length) ==
    [n \in 1..length |-> IF n <= k THEN ScoreKeywords[n] ELSE "x"]

InitScore ==
    /\ arg \in { [url |-> url, title |-> title, content |-> ScoreContent(k, length)] :
                    url \in ScoreUrls, title \in ScoreTitles, k \in 0..4,
                    length \in {0, 1, 4, 100, 3999, 4000, MaxScoreContentLength} }
    /\ ret = <<>>
    /\ applied = FALSE
    /\ PipelineNotStarted

ApplyScore ==
    /\ ~applied
    /\ ret' = calculateSourceQualityScore(arg)
    /\ applied' = TRUE
    /\ UNCHANGED <<arg, pipeVars>>

NextScore == ApplyScore

SpecScore == InitScore /\ [][NextScore]_vars

(* C26. calculateSourceQualityScore returns, for every source (any content  *)
(* length, title, URL and body keywords), a score within 0..100 inclusive   *)
(* (here in hundredths: within 0..10000).                                   *)
C26_ScoreWithinRange ==
    applied => (ret \in Int /\ 0 <= ret /\ ret <= 100 * 100)

\* a source with a long content, both title bonuses, the three domain bonuses
\* and the four keywords: the bonuses add up to 117 points, the score is 100
C26_Witness ==
    /\ applied
    /\ Len(arg.content) >= 4000
    /\ arg.title = <<"review", " ", "report">>
    /\ arg.url = <<"coindesk", "medium", "github">>
    /\ \A n \in 1..4 : arg.content[n] = ScoreKeywords[n]
    /\ ret = 100 * 100

----------------------------------------------------------------------------
(* C27. processAndScoreSources returns a permutation of its input sources   *)
(* (none lost, none added) ordered by non-increasing quality score, and     *)
(* leaves the input list and its elements unchanged.                        *)
C27_ScoredPermutationSorted ==
    /\ [](applied =>
            LET processed == ret.processedSources
            IN  /\ Len(processed) = Len(arg)
                /\ { processed[k].index : k \in 1..Len(processed) } = 1..Len(arg)
                /\ \A k \in 1..Len(processed) :
                      /\ processed[k].source = arg[processed[k].index]
                      /\ processed[k].qualityScore
                            = calculateSourceQualityScore(processed[k].source)
                /\ \A k \in 1..(Len(processed) - 1) :
                      processed[k].qualityScore >= processed[k + 1].qualityScore)
    /\ [][arg' = arg]_vars

\* a list of at least three sources was scored and its first source is not
\* the first of the result
C27_Witness ==
    /\ applied
    /\ Len(arg) >= 3
    /\ ret.processedSources[1].index > 1
    /\ ret.processedSources[1].qualityScore > ret.processedSources[Len(arg)].qualityScore

(* C28. Tier sizes never exceed the declared caps for any number of         *)
(* candidate sources: premium has at most 15 sources, standard at most 40,  *)
(* compressed at most 100, and each size is at most the number of           *)
(* candidates remaining after the earlier tiers.                            *)
C28_TierSizesWithinCaps ==
    applied =>
        LET tierSizes == TierSizes(ret.processedSources)
            total == Len(ret.processedSources)
        IN  /\ Len(ret.premiumSources) = tierSizes.premium
            /\ Len(ret.standardSources) = tierSizes.standard
            /\ Len(ret.compressedSources) = tierSizes.compressed
            /\ tierSizes.premium \in 0..15
            /\ tierSizes.standard \in 0..40
            /\ tierSizes.compressed \in 0..100
            /\ tierSizes.premium <= total
            /\ tierSizes.standard <= total - tierSizes.premium
            /\ tierSizes.compressed <= total - tierSizes.premium - tierSizes.standard

\* sixty candidates: the first two tiers are at their caps and the compressed
\* tier has the five that remain
C28_Witness ==
    /\ applied
    /\ Len(arg) = 60
    /\ Len(ret.premiumSources) = 15
    /\ Len(ret.standardSources) = 40
    /\ Len(ret.compressedSources) = 5

----------------------------------------------------------------------------
\* the sources of the researchReport of the earlier generateReport:
\* sources.slice(0, 20), of the list fetchSourcesMultiStage returned
generateReportSources(srcs) == Slice(srcs, 0, 20)

(* C29. The sources list of a returned ResearchReport is a prefix of the    *)
(* processed source list and is bounded: at most 25 sources for runPipeline *)
(* (at most 20 for the earlier generateReport), whatever the number of      *)
(* gathered sources.                                                        *)
C29_ReportSourcesBoundedPrefix ==
    /\ pc = "resolved" =>
          /\ Len(result.sources) <= 25
          /\ Len(result.sources) = Min(25, Len(extractedSources))
          /\ \A k \in 1..Len(result.sources) : result.sources[k] = extractedSources[k]
    /\ LET shown == generateReportSources(sources)
       IN  /\ Len(shown) <= 20
           /\ Len(shown) = Min(20, Len(sources))
           /\ \A k \in 1..Len(shown) : shown[k] = sources[k]

\* a run on more than 25 gathered sources has resolved: all were extracted
\* and the report lists the first 25
C29_Witness ==
    /\ pc = "resolved"
    /\ Len(sources) > 25
    /\ Len(extractedSources) = Len(sources)
    /\ Len(result.sources) = 25
    /\ Len(generateReportSources(sources)) = 20

----------------------------------------------------------------------------
(* C30. Model fallback: for any single LLM call, when the primary model     *)
(* fails with a model-related error the call is retried on the configured   *)
(* secondary model exactly once; if the secondary model also fails the call *)
(* fails, and no further fallback is attempted. Here: a call whose first    *)
(* request failed with the provider's model error has sent exactly two      *)
(* requests when it settles, and it returns what the second one returned.   *)
C30_ModelFallbackOnce ==
    (applied /\ arg[1] = Failure(ModelNotFoundError)) =>
        /\ ret.invocations = 2
        /\ (Len(arg) >= 2 /\ arg[2].kind = "response") =>
                (ret.state = "returned" /\ ret.value = arg[2].content)
        /\ (Len(arg) = 1 \/ arg[2].kind # "response") => ret.state = "threw"

----------------------------------------------------------------------------
(* C36. Tier coverage: for any number n of scored sources with n <= 155,    *)
(* every source is assigned to exactly one of the premium, standard and     *)
(* compressed tiers (the three sizes sum to n); for n > 155 exactly the 155 *)
(* highest-ranked sources are assigned and the rest are in no tier.         *)
C36_TiersCoverRankedSources ==
    applied =>
        LET processed == ret.processedSources
            n == Len(arg)
            assigned == ret.premiumSources \o ret.standardSources \o ret.compressedSources
            tierOf(i) == { name \in {"premium", "standard", "compressed"} :
                            i \in IndicesOf(CASE name = "premium" -> ret.premiumSources
                                              [] name = "standard" -> ret.standardSources
                                              [] OTHER -> ret.compressedSources) }
        IN  /\ Len(assigned) = (IF n <= 155 THEN n ELSE 155)
            /\ \A k \in 1..Len(assigned) : assigned[k] = processed[k]
            /\ \A k \in 1..Len(processed) :
                  Cardinality(tierOf(processed[k].index)) = (IF k <= 155 THEN 1 ELSE 0)
            /\ n <= 155 => \A i \in 1..n : Cardinality(tierOf(i)) = 1

\* exactly 155 sources: each is in a tier, the three tiers are full
C36_Witness ==
    /\ applied
    /\ Len(arg) = 155
    /\ Len(ret.premiumSources) + Len(ret.standardSources) + Len(ret.compressedSources) = 155
    /\ Len(ret.compressedSources) = 100

----------------------------------------------------------------------------
\* what the response text says about source i of the batch: the trimmed text
\* after its i-th marker, if there is one
ResponseEntries(summaryText, i) ==
    LET parts == SplitSummaryText(summaryText)
    IN  IF i + 1 <= Len(parts) THEN { Trim(parts[i + 1]) } ELSE {}

(* C39. Summary alignment in summarizeBatch: in the returned list, position *)
(* i holds either the summary that the LLM response gave for source i of    *)
(* the batch or the placeholder naming source i; a response entry that is   *)
(* discarded as too short (20 characters or less) never causes the summary  *)
(* of another source to be attributed to source i.                          *)
C39_SummariesAligned ==
    \A c \in 1..Len(ret.calls) :
        LET call == ret.calls[c]
            batch == SummaryBatch(arg.sources, arg.mode, call.i)
        IN  (call.outcome.kind = "response" /\ call.outcome.content.kind = "string") =>
                \A i \in 1..Len(batch) :
                    call.summaries[i] \in
                        { SummaryPlaceholder(batch[i]) }
                            \cup ResponseEntries(call.outcome.content.text, i)

----------------------------------------------------------------------------
\* the attemptSearch calls made by the n-th searchSingle call
AttemptsOf(search, n) == SelectSeq(search.attempts, LAMBDA a : a.single = n)

(* C32. searchSingle fallback chain: for a valid query it makes at most     *)
(* three provider attempts, in the order (advanced depth with domain        *)
(* filtering), (advanced depth without domain filtering), (basic depth      *)
(* without domain filtering); a later attempt is made only when every       *)
(* earlier attempt returned zero results, and the result returned is that   *)
(* of the last attempt made; with useFallback = false exactly one attempt   *)
(* is made; an invalid query causes no provider attempt.                    *)
C32_FallbackChain ==
    /\ \A n \in 1..Len(ret.singles) :
          LET mine == AttemptsOf(ret, n)
              depths == <<"advanced", "advanced", "basic">>
              filtering == <<TRUE, FALSE, FALSE>>
          IN  /\ Len(mine) <= 3
              /\ \A k \in 1..Len(mine) :
                    /\ mine[k].search_depth = depths[k]
                    /\ mine[k].useDomainFiltering = filtering[k]
                    /\ \A j \in 1..(k - 1) : mine[j].results = 0
              /\ validateQuery(ret.singles[n]) => Len(mine) >= 1
              /\ ~validateQuery(ret.singles[n]) => Len(mine) = 0
              /\ ~ret.options.useFallback => Len(mine) <= 1
    /\ (ret.entry = "searchSingle" /\ ret.state = "resolved") =>
          LET mine == AttemptsOf(ret, 1)
          IN  /\ Len(ret.singles) = 1
              /\ Len(ret.requests) = Len(mine)
              /\ Len(mine) = 0 => ret.results = <<>>
              /\ Len(mine) > 0 =>
                    /\ Len(ret.results) = mine[Len(mine)].results
                    /\ (ret.options.useFallback /\ Len(mine) < 3) => Len(ret.results) > 0
                    /\ ~ret.options.useFallback => Len(mine) = 1

\* searchSingle returned the result of its second attempt after the first
\* one, with domain filtering, had found nothing
C32_Witness ==
    /\ applied
    /\ ret.entry = "searchSingle"
    /\ ret.state = "resolved"
    /\ ret.options.useFallback
    /\ Len(ret.attempts) = 2
    /\ ret.attempts[1].results = 0
    /\ ret.attempts[2].results = 1
    /\ Len(ret.results) = 1

----------------------------------------------------------------------------
(* C33. searchEnhanced: when the initial connection test fails, it returns  *)
(* an empty result with totalQueries = 0 and issues no search request for   *)
(* any of the given queries; when the test succeeds it processes at most    *)
(* queryLimit (default 25) of the given queries, in input order, one at a   *)
(* time.                                                                    *)
C33_ConnectionTestAndQueryLimit ==
    (ret.entry = "searchEnhanced" /\ ret.state # "ready") =>
        LET limit == IF arg.options.queryLimit = 0 THEN 25 ELSE arg.options.queryLimit
            first == 1..Min(limit, Len(arg.queries))
            pending == { k \in 1..Len(ret.attempts) : ret.attempts[k].results = -1 }
        IN  /\ ret.requests[1] = <<"test">>
            /\ (ret.fetches >= 1 /\ arg.script[1] \in {"httpError", "transportError"}) =>
                  /\ ret.state = "resolved"
                  /\ ret.results = <<>>
                  /\ ret.totalQueries = 0
                  /\ ret.requests = << <<"test">> >>
                  /\ ret.singles = <<>>
                  /\ ret.attempts = <<>>
            /\ ret.fetches = 0 => (ret.singles = <<>> /\ ret.attempts = <<>>)
            /\ Len(ret.singles) <= limit
            /\ \E f \in [1..Len(ret.singles) -> first] :
                  /\ \A j, k \in 1..Len(ret.singles) : j < k => f[j] < f[k]
                  /\ \A k \in 1..Len(ret.singles) :
                        /\ validateQuery(arg.queries[f[k]])
                        /\ ret.singles[k] = Str(sanitizeQuery(arg.queries[f[k]]))
            /\ pending \subseteq { Len(ret.attempts) }
            /\ \A k \in 1..Len(ret.attempts) :
                  ret.attempts[k].single = Len(ret.singles) \/ k < Len(ret.attempts)
            /\ ret.state = "resolved" => ret.totalQueries = Len(ret.singles)

\* the connection test was answered with a non-success status and
\* searchEnhanced returned without a search request for its two valid queries
C33_Witness ==
    /\ applied
    /\ ret.entry = "searchEnhanced"
    /\ arg.script[1] = "httpError"
    /\ validateQuery(arg.queries[1])
    /\ validateQuery(arg.queries[2])
    /\ ret.state = "resolved"
    /\ ret.fetches = 1
    /\ ret.totalQueries = 0

----------------------------------------------------------------------------
(* The duplicate filter of searchEnhanced on lists of results               *)

MaxUniqueLen == 4

\* results that share a url, differ in the case of the url, or have no url
UniqueDocs ==
    { [title |-> <<"t">>, url |-> <<"a">>, content |-> <<"x">>],
      [title |-> <<"t">>, url |-> <<"a">>, content |-> <<"y">>],
      [title |-> <<"t">>, url |-> <<"A">>, content |-> <<"x">>],
      [title |-> <<"t">>, url |-> <<"b">>, content |-> <<"x">>],
      [title |-> <<"t">>, url |-> <<>>, content |-> <<"x">>] }

InitUnique ==
    /\ arg \in SeqsUpTo(UniqueDocs, MaxUniqueLen)
    /\ ret = <<>>
    /\ applied = FALSE
    /\ PipelineNotStarted

ApplyUnique ==
    /\ ~applied
    /\ ret' = SearchEnhancedResults(arg)
    /\ applied' = TRUE
    /\ UNCHANGED <<arg, pipeVars>>

NextUnique == ApplyUnique

SpecUnique == InitUnique /\ [][NextUnique]_vars

(* C34. searchEnhanced: for any sequence of per-query results, the returned *)
(* results contain no two entries with the same url string, each kept entry *)
(* is the first occurrence of its url in query order, and every url         *)
(* returned by some query appears in the output.                            *)
C34_UniqueUrlsFirstOccurrence ==
    applied =>
        LET firstOf(url) == CHOOSE i \in 1..Len(arg) :
                                /\ arg[i].url = url
                                /\ \A j \in 1..(i - 1) : arg[j].url # url
        IN  /\ \A i, j \in 1..Len(ret) : i # j => ret[i].url # ret[j].url
            /\ { ret[k].url : k \in 1..Len(ret) } = { arg[k].url : k \in 1..Len(arg) }
            /\ \A k \in 1..Len(ret) : ret[k] = arg[firstOf(ret[k].url)]
            /\ \A j, k \in 1..Len(ret) : j < k => firstOf(ret[j].url) < firstOf(ret[k].url)

\* four results, two of them with the url of the first but another content:
\* the first is kept, and the url of the third result is kept with it
C34_Witness ==
    /\ applied
    /\ Len(arg) = 4
    /\ arg[1].url = arg[2].url /\ arg[1].content # arg[2].content
    /\ arg[3].url # arg[1].url
    /\ arg[4] = arg[2]
    /\ ret = <<arg[1], arg[3]>>

----------------------------------------------------------------------------
(* C35. sanitizeQuery is idempotent: for every query string q,              *)
(* sanitizeQuery(sanitizeQuery(q)) = sanitizeQuery(q), so that sanitizing   *)
(* in searchEnhanced and again in searchSingle sends the same string as     *)
(* sanitizing once.                                                         *)
C35_SanitizeIdempotent ==
    /\ \A k \in 1..Len(arg.queries) :
          sanitizeQuery(Str(sanitizeQuery(arg.queries[k]))) = sanitizeQuery(arg.queries[k])
    /\ ret.entry = "searchEnhanced" =>
          \A n \in 1..Len(ret.singles) :
              sanitizeQuery(ret.singles[n]) = ret.singles[n].text

----------------------------------------------------------------------------
(* C37. Stage log ordering in runPipeline: records are only appended to the *)
(* debug log, never removed or changed; for each stage the 'starting'       *)
(* record is appended before its 'completed' record, the 'completed' record *)
(* of a stage precedes the 'starting' record of the next stage, and a stage *)
(* that failed has a 'starting' record and no 'completed' record.           *)
C37_StageLogAppendOnlyOrdered ==
    /\ [][/\ Len(debugLogs') >= Len(debugLogs)
          /\ SubSeq(debugLogs', 1, Len(debugLogs)) = debugLogs]_vars
    /\ [](LET keys == <<"gathering", "extraction", "synthesis", "speculation",
                        "assembly", "validation">>
              at(key, status) == { k \in 1..Len(debugLogs) :
                                      /\ debugLogs[k].stage = StageName(key)
                                      /\ debugLogs[k].status = status }
              stageRecords == { k \in 1..Len(debugLogs) : debugLogs[k].stage # "" }
          IN  /\ \A n \in 1..6 :
                    /\ Cardinality(at(keys[n], "starting")) <= 1
                    /\ Cardinality(at(keys[n], "completed")) <= 1
                    /\ \A c \in at(keys[n], "completed") :
                          \E s \in at(keys[n], "starting") : s < c
              /\ \A n \in 1..5 :
                    \A s \in at(keys[n + 1], "starting") :
                        \E c \in at(keys[n], "completed") : c < s
              /\ (pc = "rejected" /\ stageRecords # {}) =>
                    LET last == CHOOSE k \in stageRecords : \A j \in stageRecords : j <= k
                    IN  /\ debugLogs[last].status = "starting"
                        /\ \A k \in stageRecords :
                              debugLogs[k].stage = debugLogs[last].stage => k = last
                        /\ debugLogs[Len(debugLogs)].event = "6-Stage Pipeline failed")

\* the synthesis call failed: the log holds the 'starting' record of the
\* synthesis stage after the 'completed' record of the extraction, and no
\* 'completed' record of the synthesis
C37_Witness ==
    /\ pc = "rejected"
    /\ LET stageLogs == SelectSeq(debugLogs, LAMBDA log : log.stage # "")
       IN  /\ Len(stageLogs) = 5
           /\ stageLogs[4] = StageEntry(StageName("extraction"), "completed")
           /\ stageLogs[5] = StageEntry(StageName("synthesis"), "starting")

----------------------------------------------------------------------------
(* Several runs of runPipeline on one DeepResearchDegen instance, one after *)
(* another: this.debugLogs is the array the constructor made, the locals of *)
(* runPipeline are new with each call.  ret.logStart is the length          *)
(* this.debugLogs has when the current call begins.                         *)

MaxRuns == 2

MaxRunSources == 1

\* new DeepResearchDegen(...): the empty debug log, no run yet
InitRuns ==
    /\ arg \in [n : 0..MaxRunSources,
                extraction : { Response(Str(<<"extraction", " ", "summary">>)),
                               Failure([status |-> 500, code |-> "none",
                                        message |-> <<"server error">>]) }]
    /\ ret = [run |-> 1, logStart |-> 0]
    /\ applied = FALSE
    /\ input = [projectName |-> <<"P">>, website |-> <<>>, twitter |-> <<>>]
    /\ costTrackerCalls = <<>>
    /\ searchCalls = <<>>
    /\ pc = "idle"
    /\ totalCost = 50
    /\ searchStage = 0
    /\ allSources = <<>>
    /\ sources = <<>>
    /\ batchStart = 0
    /\ inFlight = {}
    /\ batchResults = <<>>
    /\ extractedSources = <<>>
    /\ synthesis = Undefined
    /\ speculation = Undefined
    /\ finalReport = Undefined
    /\ validation = Undefined
    /\ llmCalls = NoLlmCalls
    /\ debugLogs = <<>>
    /\ result = <<>>
    /\ error = <<>>

\* the promise of the run has settled and runPipeline is called on the same
\* instance again: the call has its own locals, the instance keeps debugLogs
\* and its cost tracker
RunAgain ==
    /\ pc \in {"resolved", "rejected"}
    /\ ret.run < MaxRuns
    /\ ret' = [run |-> ret.run + 1, logStart |-> Len(debugLogs)]
    /\ pc' = "idle"
    /\ searchStage' = 0
    /\ allSources' = <<>>
    /\ sources' = <<>>
    /\ batchStart' = 0
    /\ inFlight' = {}
    /\ batchResults' = <<>>
    /\ extractedSources' = <<>>
    /\ synthesis' = Undefined
    /\ speculation' = Undefined
    /\ finalReport' = Undefined
    /\ validation' = Undefined
    /\ llmCalls' = NoLlmCalls
    /\ result' = <<>>
    /\ error' = <<>>
    /\ UNCHANGED <<arg, applied, runVars, totalCost, debugLogs>>

NextRuns ==
    \/ StartRun
    \/ GatherStageReturn
    \/ ExtractSettleAsGiven
    \/ ExtractBatchDone
    \/ SynthesisReturn
    \/ SpeculationReturn
    \/ FinalReportReturn
    \/ ValidationReturn
    \/ RunAgain

SpecRuns == InitRuns /\ [][NextRuns]_vars

(* C38. Run isolation: the metadata.pipelineStages of a report returned by  *)
(* runPipeline contains only stage records logged by that run, also when    *)
(* the same DeepResearchDegen instance executes several runs one after      *)
(* another or concurrently.                                                 *)
C38_StagesOfThisRunOnly ==
    pc = "resolved" =>
        result.metadata.pipelineStages =
            SelectSeq(SubSeq(debugLogs, ret.logStart + 1, Len(debugLogs)),
                      LAMBDA log : log.stage # "")

----------------------------------------------------------------------------
(* The handler of POST /api/research in server.js.  arg is the request and  *)
(* the environment of the process: the parsed JSON body and the two keys of *)
(* process.env.  ret is the invocation of the handler: where it is, the     *)
(* DeepResearchDegen instances constructed, the inputs generateReport was   *)
(* called with, the settlement of the awaited promise and the responses     *)
(* written to res.                                                          *)

\* a value of JavaScript in a condition or on the left of ||
Truthy(v) == v.kind = "string" /\ v.text # <<>>

\* v || ''
OrEmpty(v) == IF Truthy(v) THEN v ELSE Str(<<>>)

\* the run is refused only when neither key is there
MissingKeys_onlyBoth(env) == ~Truthy(env.OPENAI_API_KEY) /\ ~Truthy(env.TAVILY_API_KEY)

\* !openaiKey || !tavilyKey
MissingKeys(env) == ~Truthy(env.OPENAI_API_KEY) \/ ~Truthy(env.TAVILY_API_KEY)

\* res.status(code).json(body) and res.json(body)
JsonResponse(status, body) == [status |-> status, body |-> body]

ProjectNameRequired == [error |-> "Project name is required", details |-> Undefined]

KeysNotConfigured ==
    [error   |-> "API keys not configured on server",
     details |-> Str(<<"Both OpenAI and Tavily API keys are required">>)]

FailedToGenerate(message) ==
    [error |-> "Failed to generate research report", details |-> Str(message)]

\* the values a field of the body, or a variable of the environment, has
FieldValues(text) == { Undefined, Str(<<>>), Str(text) }

RequestBodies ==
    [projectName     : FieldValues(<<"P">>),
     website         : { Undefined, Str(<<"https://", "p.io">>) },
     twitter         : { Undefined, Str(<<"@p">>) },
     contractAddress : { Undefined, Str(<<"0x1">>) }]

ProcessEnvs ==
    [OPENAI_API_KEY : FieldValues(<<"sk">>), TAVILY_API_KEY : FieldValues(<<"tvly">>)]

\* how the promise of generateReport settles: with the report of runPipeline
\* or with the error its catch block throws
ReportSettlements ==
    { [state   |-> "resolved",
       value   |-> PipelineReport(<<StageEntry(StageName("gathering"), "starting")>>,
                                  Str(<<"report">>), <<>>, Str(<<"review">>)),
       message |-> <<>>] }
    \cup { [state |-> "rejected", value |-> <<>>, message |-> <<"Pipeline failed: ">> \o m] :
             m \in { <<"Cost limit exceeded">>, <<"No sources found for the given input">> } }

NotSettled == [state |-> "pending", value |-> <<>>, message |-> <<>>]

InitServer ==
    /\ arg \in [body : RequestBodies, env : ProcessEnvs]
    /\ ret = [pc |-> "received", constructed |-> 0, started |-> <<>>,
              settled |-> NotSettled, responses |-> <<>>]
    /\ applied = FALSE
    /\ PipelineNotStarted

\* the handler from its first statement to the return of a refusal, or to the
\* await of researcher.generateReport
HandleRequest ==
    /\ ret.pc = "received"
    /\ ret' =
        IF ~Truthy(arg.body.projectName)
        THEN [ret EXCEPT !.pc = "done",
                         !.responses = Append(@, JsonResponse(400, ProjectNameRequired))]
        ELSE IF MissingKeys(arg.env)
        THEN [ret EXCEPT !.pc = "done",
                         !.responses = Append(@, JsonResponse(500, KeysNotConfigured))]
        ELSE [ret EXCEPT !.pc = "awaiting",
                         !.constructed = @ + 1,
                         !.started = Append(@, [projectName     |-> arg.body.projectName,
                                                website         |-> OrEmpty(arg.body.website),
                                                twitter         |-> OrEmpty(arg.body.twitter),
                                                contractAddress |->
                                                    OrEmpty(arg.body.contractAddress)])]
    /\ applied' = TRUE
    /\ UNCHANGED <<arg, pipeVars>>

\* the awaited promise resolves: res.json(report)
ReportResolves ==
    /\ ret.pc = "awaiting"
    /\ \E s \in ReportSettlements :
        /\ s.state = "resolved"
        /\ ret' = [ret EXCEPT !.pc = "done", !.settled = s,
                              !.responses = Append(@, JsonResponse(200, s.value))]
    /\ UNCHANGED <<arg, applied, pipeVars>>

\* the awaited promise rejects: the catch block answers 500
ReportRejects ==
    /\ ret.pc = "awaiting"
    /\ \E s \in ReportSettlements :
        /\ s.state = "rejected"
        /\ ret' = [ret EXCEPT !.pc = "done", !.settled = s,
                              !.responses = Append(@, JsonResponse(500,
                                                          FailedToGenerate(s.message)))]
    /\ UNCHANGED <<arg, applied, pipeVars>>

NextServer ==
    \/ HandleRequest
    \/ ReportResolves
    \/ ReportRejects

SpecServer == InitServer /\ [][NextServer]_vars

(* C31. HTTP entry point: every POST /api/research receives exactly one     *)
(* response; a request without projectName is answered 400 and a request on *)
(* a server with a missing API key is answered 500, in both cases without   *)
(* constructing or starting a pipeline run; a pipeline rejection is         *)
(* answered 500 with the error message.  (The project name is looked at     *)
(* before the keys, so the answer for a missing key is that of a request    *)
(* that has a project name.)                                                *)
C31_OneResponsePerRequest ==
    /\ [](/\ Len(ret.responses) = (IF ret.pc = "done" THEN 1 ELSE 0)
          /\ ret.pc # "done" => ENABLED NextServer
          /\ ret.constructed = Len(ret.started)
          /\ (ret.pc = "done" /\ ~Truthy(arg.body.projectName)) =>
                /\ ret.responses[1] = JsonResponse(400, ProjectNameRequired)
                /\ ret.constructed = 0
                /\ ret.started = <<>>
          /\ (ret.pc = "done" /\ Truthy(arg.body.projectName)
                /\ (~Truthy(arg.env.OPENAI_API_KEY) \/ ~Truthy(arg.env.TAVILY_API_KEY))) =>
                /\ ret.responses[1] = JsonResponse(500, KeysNotConfigured)
                /\ ret.constructed = 0
                /\ ret.started = <<>>
          /\ (ret.pc = "done" /\ ret.settled.state = "rejected") =>
                /\ ret.responses[1].status = 500
                /\ ret.responses[1].body.details = Str(ret.settled.message)
          /\ (ret.pc = "done" /\ ret.settled.state = "resolved") =>
                ret.responses[1] = JsonResponse(200, ret.settled.value))
    /\ [][ret.pc = "done" => ret' = ret]_vars

\* the request has a project name, the tavily key is missing: answered 500
\* with no researcher constructed
C31_Witness ==
    /\ ret.pc = "done"
    /\ arg.body.projectName = Str(<<"P">>)
    /\ arg.env.OPENAI_API_KEY = Str(<<"sk">>)
    /\ arg.env.TAVILY_API_KEY = Undefined
    /\ ret.responses = <<JsonResponse(500, KeysNotConfigured)>>
    /\ ret.constructed = 0

====
